---- MODULE Spec2Model ----
(***************************************************************************)
(* PopCart cart drawer (extensions/cart-drawer/assets/popcart.js): the     *)
(* promotion reconciliation engine as a state machine.                     *)
(*                                                                         *)
(* The browser is single-threaded: code between two awaits of a network    *)
(* call runs atomically.  Every action below is therefore one such         *)
(* segment: it starts when a response (or a user event, or a timer)        *)
(* arrives and runs the handler up to the next fetch it awaits.  An async  *)
(* call chain is a stack of frames; several chains (tasks) can be          *)
(* suspended at the same time.                                             *)
(*                                                                         *)
(* The remote cart is the shop's /cart endpoints.  Its lines are drawn     *)
(* from a fixed universe (LineIds, in cart order); tagged lines (free      *)
(* gift, BXGY free) are priced 0 in total_price by the downstream pricing  *)
(* collaborator.                                                           *)
(***************************************************************************)
EXTENDS Integers, Sequences, FiniteSets, TLC

\* ------------------------------------------------------------------ bounds
MaxQty == 2          \* largest quantity the remote holds of one line (stock)
MaxTasks == 2        \* async call chains suspended at the same time
MaxTimers == 2       \* setTimeout callbacks pending at the same time
MaxDepth == 3        \* refreshCart calls nested in one call chain
MaxFaults == 1       \* injected remote failures (non-2xx or network error)
MaxNow == 3          \* clock horizon, in units of TickMs
MaxIn == 5           \* largest quantity of a line of the carts a session starts on
MaxBuy == 4          \* largest buyQuantity of an offer
MaxGet == 3          \* largest getQuantity of an offer
MaxTiers == 3        \* most reward tiers of a configuration of discount tiers
MaxLineQty == 3      \* largest quantity of a line in a direct call of a pure method
MaxFree == 4         \* largest numFreeItems in a direct call of a pure method

\* ------------------------------------------------------- program constants
CooldownMs == 2000   \* popcart.js:2032 / 2068
TickMs == CooldownMs \* granularity of the modelled clock: one cooldown window

\* ------------------------------------------------------------ the universe
\* Cart lines in cart order.  P* are ordinary lines, F* are lines carrying
\* _popcart_bxgy_free, G1 is the line carrying _popcart_free_gift.
LineIds == <<"P1", "P2", "F1", "F2", "G1">>
LineSet == {LineIds[n] : n \in 1..Len(LineIds)}

IsFreeGift(l) == l = "G1"              \* properties._popcart_free_gift === 'true'
IsBxgyFree(l) == l \in {"F1", "F2"}    \* properties._popcart_bxgy_free === 'true'
ProductOf(l) == CASE l \in {"P1", "F1"} -> "p1"
                  [] l \in {"P2", "F2"} -> "p2"
                  [] OTHER -> "gift"
UnitPrice(l) == CASE l \in {"P1", "F1"} -> 2
                  [] l \in {"P2", "F2"} -> 1
                  [] OTHER -> 1

\* what the shop has in stock of a line
Stock(l) == IF l \in {"P2", "F2"} THEN 1 ELSE MaxQty
EmptyItems == [l \in LineSet |-> 0]

Min(a, b) == IF a < b THEN a ELSE b
Max(a, b) == IF a > b THEN a ELSE b
Range(s) == {s[n] : n \in 1..Len(s)}

RECURSIVE SumOver(_, _)
SumOver(f, S) == IF S = {} THEN 0
                 ELSE LET x == CHOOSE y \in S : TRUE
                      IN f[x] + SumOver(f, S \ {x})

\* cart.total_price of the remote: tagged lines are discounted to 0
TotalPrice(items) ==
  SumOver([l \in LineSet |-> IF IsFreeGift(l) \/ IsBxgyFree(l) THEN 0
                             ELSE UnitPrice(l) * items[l]], LineSet)

\* lines of a cart, in cart order, that satisfy a test
RECURSIVE LinesFrom(_, _, _)
LinesFrom(items, test, n) ==
  IF n > Len(LineIds) THEN <<>>
  ELSE (IF items[LineIds[n]] > 0 /\ test[LineIds[n]] THEN <<LineIds[n]>> ELSE <<>>)
       \o LinesFrom(items, test, n + 1)

\* ---------------------------------------------------------- configuration
TierShipping == [rewardType |-> "free_shipping", threshold |-> 2, rewardValue |-> ""]
TierGift == [rewardType |-> "free_gift", threshold |-> 4, rewardValue |-> "gift"]
TierPercent == [rewardType |-> "discount_percent", threshold |-> 3, rewardValue |-> "10"]

\* _popcart_tier_threshold of a gift line (set by addFreeGiftToCart)
TierThresholdOf(l) == TierGift.threshold

\* offer.productIds is a JSON string: "missing" (absent), "malformed" (JSON.parse
\* throws) or "list" (parses to the list of ids held in ids)
OfferOf(mode, b, g) ==
  [rewardMode |-> mode, buyQuantity |-> b, getQuantity |-> g,
   appliesToType |-> "all", productIds |-> [kind |-> "missing", ids |-> {}],
   automaticProductHandle |-> "p1"]

\* cart.items of a cart of the universe: one record per line with quantity > 0
Item(l, q) == [key |-> l, product_id |-> ProductOf(l), price |-> UnitPrice(l),
               quantity |-> q, free_gift |-> IsFreeGift(l), bxgy_free |-> IsBxgyFree(l)]
RECURSIVE ItemsFrom(_, _)
ItemsFrom(items, n) ==
  IF n > Len(LineIds) THEN <<>>
  ELSE (IF items[LineIds[n]] > 0 THEN <<Item(LineIds[n], items[LineIds[n]])>> ELSE <<>>)
       \o ItemsFrom(items, n + 1)
CartItems(items) == ItemsFrom(items, 1)

\* ----------------------------------------------------------- BXGY, pure part
\* productIds is what JSON.parse and the walk of the parsed value make of the
\* offer's field: "missing" (no field), "malformed" (JSON.parse throws),
\* "list" (a list of id strings, ids the ids it names), "notStrings" (any
\* other JSON value: the walk throws at the first element that is not a
\* string, or at once if the value is no list; ids are the id strings that
\* precede that element)
itemQualifiesForBxgy(item, offer) ==
  IF offer.appliesToType = "all" THEN TRUE
  ELSE IF offer.appliesToType = "collection" THEN TRUE
  ELSE IF offer.appliesToType = "products" /\ offer.productIds.kind # "missing"
       THEN IF offer.productIds.kind = "malformed" THEN FALSE
            ELSE item.product_id \in offer.productIds.ids
  ELSE FALSE

\* the sum that leaves out the lines tagged _popcart_bxgy_free only
RECURSIVE QualifyingFromCountingGifts(_, _, _)
QualifyingFromCountingGifts(its, offer, n) ==
  IF n > Len(its) THEN 0
  ELSE (IF its[n].bxgy_free THEN 0
        ELSE IF itemQualifiesForBxgy(its[n], offer) THEN its[n].quantity ELSE 0)
       + QualifyingFromCountingGifts(its, offer, n + 1)
RECURSIVE QualifyingFrom(_, _, _)
QualifyingFrom(its, offer, n) ==
  IF n > Len(its) THEN 0
  ELSE (IF its[n].free_gift \/ its[n].bxgy_free THEN 0
        ELSE IF itemQualifiesForBxgy(its[n], offer) THEN its[n].quantity ELSE 0)
       + QualifyingFrom(its, offer, n + 1)
calculateBxgyQualifyingQuantity(its, offer) == QualifyingFrom(its, offer, 1)

RECURSIVE FreeCountFrom(_, _)
FreeCountFrom(its, n) ==
  IF n > Len(its) THEN 0
  ELSE (IF its[n].bxgy_free THEN its[n].quantity ELSE 0) + FreeCountFrom(its, n + 1)
countBxgyFreeItemsInCart(its) == FreeCountFrom(its, 1)

\* the cycle formula taken for every reward mode
EarnedForProgressByCycles(offer, qualifyingQty) ==
  (qualifyingQty \div offer.buyQuantity) * offer.getQuantity

\* the cheapest mode granting up to getQuantity units of whatever qualifies
EarnedForProgressUpToGet(offer, qualifyingQty) ==
  IF offer.rewardMode = "cheapest_in_cart"
  THEN Max(0, Min(offer.getQuantity, qualifyingQty))
  ELSE (qualifyingQty \div offer.buyQuantity) * offer.getQuantity

\* updateBxgyProgress, lines 1462-1470
EarnedForProgress(offer, qualifyingQty) ==
  IF offer.rewardMode = "cheapest_in_cart"
  THEN Max(0, Min(offer.getQuantity, qualifyingQty - offer.buyQuantity))
  ELSE (qualifyingQty \div offer.buyQuantity) * offer.getQuantity

\* applyBxgyRewards, lines 2001-2002
EarnedCycles(offer, qualifyingQty) == qualifyingQty \div offer.buyQuantity
\* the formula of the cheapest mode taken for every reward mode
EarnedForRewardsBeyondBuy(offer, qualifyingQty) ==
  Max(0, Min(offer.getQuantity, qualifyingQty - offer.buyQuantity))
EarnedForRewards(offer, qualifyingQty) == EarnedCycles(offer, qualifyingQty) * offer.getQuantity

\* the insertion of a sort that puts a line before the lines of its own price
RECURSIVE InsertByPriceBeforeEqual(_, _)
InsertByPriceBeforeEqual(sorted, it) ==
  IF sorted = <<>> THEN <<it>>
  ELSE IF sorted[Len(sorted)].price < it.price THEN Append(sorted, it)
  ELSE Append(InsertByPriceBeforeEqual(SubSeq(sorted, 1, Len(sorted) - 1), it),
              sorted[Len(sorted)])
\* Array.prototype.sort((a, b) => a.unitPrice - b.unitPrice): stable
RECURSIVE InsertByPrice(_, _)
InsertByPrice(sorted, it) ==
  IF sorted = <<>> THEN <<it>>
  ELSE IF sorted[Len(sorted)].price <= it.price THEN Append(sorted, it)
  ELSE Append(InsertByPrice(SubSeq(sorted, 1, Len(sorted) - 1), it), sorted[Len(sorted)])
RECURSIVE SortByPrice(_)
SortByPrice(its) ==
  IF its = <<>> THEN <<>>
  ELSE InsertByPrice(SortByPrice(SubSeq(its, 1, Len(its) - 1)), its[Len(its)])

RECURSIVE QualifyingItems(_, _, _)
QualifyingItems(its, offer, n) ==
  IF n > Len(its) THEN <<>>
  ELSE (IF ~its[n].free_gift /\ ~its[n].bxgy_free /\ itemQualifiesForBxgy(its[n], offer)
        THEN <<its[n]>> ELSE <<>>)
       \o QualifyingItems(its, offer, n + 1)

\* the walk that gives every line all that remains
RECURSIVE AllocateFromUncapped(_, _, _)
AllocateFromUncapped(sorted, n, remaining) ==
  IF n > Len(sorted) \/ remaining <= 0 THEN <<>>
  ELSE <<[key |-> sorted[n].key, free |-> remaining]>>
       \o AllocateFromUncapped(sorted, n + 1, 0)
\* the Map is a sequence of <<key, free units>> in insertion order
RECURSIVE AllocateFrom(_, _, _)
AllocateFrom(sorted, n, remaining) ==
  IF n > Len(sorted) \/ remaining <= 0 THEN <<>>
  ELSE LET freeFromThisItem == Min(sorted[n].quantity, remaining)
       IN <<[key |-> sorted[n].key, free |-> freeFromThisItem]>>
          \o AllocateFrom(sorted, n + 1, remaining - freeFromThisItem)
calculateCheapestFreeItems(its, offer, numFreeItems) ==
  IF numFreeItems <= 0 THEN <<>>
  ELSE AllocateFrom(SortByPrice(QualifyingItems(its, offer, 1)), 1, numFreeItems)

\* Map.get(key) || 0
RECURSIVE MapGet(_, _)
MapGet(map, key) ==
  IF map = <<>> THEN 0
  ELSE IF map[1].key = key THEN map[1].free
  ELSE MapGet(Tail(map), key)
RECURSIVE MapSum(_)
MapSum(map) == IF map = <<>> THEN 0 ELSE map[1].free + MapSum(Tail(map))

\* ---------------------------------------------------- reward tiers, pure part
\* Array.prototype.sort((a, b) => a.threshold - b.threshold): stable
RECURSIVE InsertByThreshold(_, _)
InsertByThreshold(sorted, t) ==
  IF sorted = <<>> THEN <<t>>
  ELSE IF sorted[Len(sorted)].threshold <= t.threshold THEN Append(sorted, t)
  ELSE Append(InsertByThreshold(SubSeq(sorted, 1, Len(sorted) - 1), t), sorted[Len(sorted)])
RECURSIVE SortByThreshold(_)
SortByThreshold(ts) ==
  IF ts = <<>> THEN <<>>
  ELSE InsertByThreshold(SortByThreshold(SubSeq(ts, 1, Len(ts) - 1)), ts[Len(ts)])

RECURSIVE TiersAtOrBelow(_, _, _)
TiersAtOrBelow(ts, total, n) ==
  IF n > Len(ts) THEN <<>>
  ELSE (IF total >= ts[n].threshold THEN <<ts[n]>> ELSE <<>>) \o TiersAtOrBelow(ts, total, n + 1)

\* `${tier.rewardType}-${tier.threshold}`; split('-') and parseInt give the pair back
RewardKey(tier) == <<tier.rewardType, tier.threshold>>

RECURSIVE FindTier(_, _, _)
FindTier(ts, key, n) ==
  IF n > Len(ts) THEN [rewardType |-> "none", threshold |-> 0, rewardValue |-> ""]
  ELSE IF RewardKey(ts[n]) = key THEN ts[n]
  ELSE FindTier(ts, key, n + 1)

RECURSIVE WithoutKey(_, _)
WithoutKey(keys, key) ==
  IF keys = <<>> THEN <<>>
  ELSE (IF keys[1] = key THEN <<>> ELSE <<keys[1]>>) \o WithoutKey(Tail(keys), key)
WithKey(keys, key) == IF key \in Range(keys) THEN keys ELSE Append(keys, key)

\* the remove loop taking every applied key for stale
KeysNotInAny(keys, S) == keys
RECURSIVE KeysNotIn(_, _)
KeysNotIn(keys, S) ==
  IF keys = <<>> THEN <<>>
  ELSE (IF keys[1] \in S THEN <<>> ELSE <<keys[1]>>) \o KeysNotIn(Tail(keys), S)

\* ------------------------------------------------------------------- state
VARIABLES
  remote,                \* the shop's cart: line -> quantity
  attributes,            \* the shop's cart attributes written by /cart/update.js
  settings,              \* this.settings (bxgyEnabled)
  rewardTiers,           \* this.rewardTiers
  bxgyOffers,            \* this.bxgyOffers
  upsells,               \* this.upsells: the lines the upsell buttons add
  cart,                  \* this.cart, the mirror: [status, items]
  appliedRewards,        \* this.appliedRewards (a Set: keys in insertion order)
  lastRewardsState,      \* this.lastRewardsState
  lastBxgyState,         \* this.lastBxgyState
  lastBxgyActionTime,    \* this.lastBxgyActionTime
  isInternalCartUpdate,  \* this.isInternalCartUpdate
  isApplyingBxgy,        \* this.isApplyingBxgy
  isAddingSelectionItem, \* this.isAddingSelectionItem
  remainingFreeSlots,    \* this.remainingFreeSlots
  bxgyFreeItemKeys,      \* this.bxgyFreeItemKeys
  bxgyProgress,          \* what renderBxgyProgress was last called with
  itemsToRender,         \* the rows renderItems last built
  selectionPickerActive, \* this.selectionPickerActive
  timers,                \* pending setTimeout callbacks, by kind
  tasks,                 \* suspended async call chains: a sequence of frame stacks
  now,                   \* Date.now(), in units of TickMs
  faults,                \* remote failures injected so far
  callArgs,              \* the arguments of a direct call of a pure method
  callRet                \* what that call returned

vars == <<remote, attributes, settings, rewardTiers, bxgyOffers, upsells, cart, appliedRewards,
          lastRewardsState, lastBxgyState, lastBxgyActionTime, isInternalCartUpdate,
          isApplyingBxgy, isAddingSelectionItem, remainingFreeSlots, bxgyFreeItemKeys,
          bxgyProgress, itemsToRender, selectionPickerActive, timers, tasks, now, faults,
          callArgs, callRet>>

\* the direct calls of the pure methods; no handler of the drawer touches them
calls == <<callArgs, callRet>>

config == <<settings, rewardTiers, bxgyOffers, upsells>>

\* the fields of the PopCart object (and the timer queue) that a segment of
\* synchronous code reads and writes, as one value
Eng == [cart |-> cart, appliedRewards |-> appliedRewards,
        lastRewardsState |-> lastRewardsState, lastBxgyState |-> lastBxgyState,
        lastBxgyActionTime |-> lastBxgyActionTime,
        isInternalCartUpdate |-> isInternalCartUpdate, isApplyingBxgy |-> isApplyingBxgy,
        isAddingSelectionItem |-> isAddingSelectionItem,
        remainingFreeSlots |-> remainingFreeSlots, bxgyFreeItemKeys |-> bxgyFreeItemKeys,
        bxgyProgress |-> bxgyProgress, itemsToRender |-> itemsToRender,
        selectionPickerActive |-> selectionPickerActive, timers |-> timers]

SetEng(e) ==
  /\ cart' = e.cart
  /\ appliedRewards' = e.appliedRewards
  /\ lastRewardsState' = e.lastRewardsState
  /\ lastBxgyState' = e.lastBxgyState
  /\ lastBxgyActionTime' = e.lastBxgyActionTime
  /\ isInternalCartUpdate' = e.isInternalCartUpdate
  /\ isApplyingBxgy' = e.isApplyingBxgy
  /\ isAddingSelectionItem' = e.isAddingSelectionItem
  /\ remainingFreeSlots' = e.remainingFreeSlots
  /\ bxgyFreeItemKeys' = e.bxgyFreeItemKeys
  /\ bxgyProgress' = e.bxgyProgress
  /\ itemsToRender' = e.itemsToRender
  /\ selectionPickerActive' = e.selectionPickerActive
  /\ timers' = e.timers

\* ------------------------------------------------------------------ frames
\* One frame per suspended async function.  pc names the await it is
\* suspended at; cart is the snapshot the pass was started with (the `cart`
\* parameter of updateCartUI); i is the cursor of the apply loop; key the
\* reward key of the remove loop; j, rem, br the cursor, the remaining
\* quantity and the calling branch of removeBxgyFreeItems; line, qty the
\* request in flight; sent the cart writes the frame has issued; failed the
\* requests of the frame that were answered non-2xx ("rejected") or whose
\* fetch threw ("throw"); ran tells that the pass evaluated a snapshot.
NoKey == <<"none", 0>>
Frame(pc) == [pc |-> pc, cart |-> EmptyItems, i |-> 1, key |-> NoKey, j |-> 1, rem |-> 0,
              br |-> "-", line |-> "-", qty |-> 0, sent |-> {}, failed |-> {}, ran |-> FALSE]
Req(op, line, qty) == [op |-> op, line |-> line, qty |-> qty]

Top(s) == s[Len(s)]
SetTop(s, f) == [s EXCEPT ![Len(s)] = f]
Pop(s) == SubSeq(s, 1, Len(s) - 1)
Result(e, s) == [e |-> e, s |-> s]
Failure(op, line, how) == [op |-> op, line |-> line, how |-> how]
\* the frame on top of a stack, with the failure of its request recorded
Failing(s, op, line, how) ==
  IF how = "ok" THEN s
  ELSE SetTop(s, [Top(s) EXCEPT !.failed = @ \cup {Failure(op, line, how)}])

\* refreshCart up to its first await: fetch('/cart.js')
CallRefreshCart(s) == Append(s, Frame("fetchCart"))

\* the patched window.fetch after the response of a cart write arrived
\* (lines 946-970): schedule refreshCart, and open() after an add
Intercept(e, ok, isAdd) ==
  IF e.isInternalCartUpdate \/ ~ok THEN e
  ELSE IF isAdd THEN [e EXCEPT !.timers.open = @ + 1]
  ELSE [e EXCEPT !.timers.refresh = @ + 1]

hideSelectionPicker(e) == [e EXCEPT !.selectionPickerActive = FALSE]

\* the picker offering the whole entitlement
showSelectionPickerOfferingAll(e, earnedFreeItems, its) ==
  [e EXCEPT !.remainingFreeSlots = earnedFreeItems, !.selectionPickerActive = earnedFreeItems > 0]
\* showSelectionPicker with the selection products already cached
showSelectionPicker(e, earnedFreeItems, its) ==
  LET slots == Max(0, earnedFreeItems - countBxgyFreeItemsInCart(its))
      e1 == [e EXCEPT !.remainingFreeSlots = slots]
  IN IF slots = 0 THEN hideSelectionPicker(e1)
     ELSE [e1 EXCEPT !.selectionPickerActive = TRUE]

BxgyOn == settings.bxgyEnabled /\ Len(bxgyOffers) > 0
Offer == bxgyOffers[1]

updateBxgyProgress(e, its) ==
  IF ~BxgyOn THEN [e EXCEPT !.bxgyFreeItemKeys = <<>>]
  ELSE LET qualifyingQty == calculateBxgyQualifyingQuantity(its, Offer)
           earnedFreeItems == EarnedForProgress(Offer, qualifyingQty)
           rendered == [currentQty |-> qualifyingQty, earnedFreeItems |-> earnedFreeItems,
                        freeItemsInCart |-> countBxgyFreeItemsInCart(its)]
       IN IF Offer.rewardMode = "cheapest_in_cart"
          THEN [e EXCEPT !.bxgyFreeItemKeys = calculateCheapestFreeItems(its, Offer, earnedFreeItems),
                         !.bxgyProgress = rendered]
          ELSE [e EXCEPT !.bxgyFreeItemKeys = <<>>, !.bxgyProgress = rendered]

\* renderItems, lines 1142-1184: the rows built for the lines of a cart, from
\* the allocation this.bxgyFreeItemKeys holds when renderItems runs.  A row
\* also keeps the line's quantity and the value of the local freeQty it was
\* built from.
Row(item, freeQty, displayQty, paid, split, allFree) ==
  [key |-> item.key, quantity |-> item.quantity, freeQty |-> freeQty,
   displayQty |-> displayQty, isPaidPortion |-> paid, isFreePortionSplit |-> split,
   isAllFree |-> allFree]
\* the split whose paid row shows the whole quantity of the line
RowsOfWholePaid(item, map) ==
  LET freeQty == MapGet(map, item.key)
      paidQty == item.quantity - freeQty
  IN IF freeQty > 0 /\ paidQty > 0
     THEN <<Row(item, freeQty, item.quantity, TRUE, FALSE, FALSE),
            Row(item, freeQty, freeQty, FALSE, TRUE, FALSE)>>
     ELSE <<Row(item, freeQty, item.quantity, freeQty <= 0, FALSE, freeQty > 0)>>
RowsOf(item, map) ==
  LET freeQty == MapGet(map, item.key)
      paidQty == item.quantity - freeQty
  IN IF freeQty > 0 /\ paidQty > 0
     THEN <<Row(item, freeQty, paidQty, TRUE, FALSE, FALSE),
            Row(item, freeQty, freeQty, FALSE, TRUE, FALSE)>>
     ELSE IF freeQty > 0 /\ paidQty = 0
     THEN <<Row(item, freeQty, item.quantity, FALSE, FALSE, TRUE)>>
     ELSE <<Row(item, freeQty, item.quantity, TRUE, FALSE, FALSE)>>
RECURSIVE RowsFrom(_, _, _)
RowsFrom(its, map, n) ==
  IF n > Len(its) THEN <<>>
  ELSE RowsOf(its[n], map) \o RowsFrom(its, map, n + 1)
renderItems(e, its) == [e EXCEPT !.itemsToRender = RowsFrom(its, e.bxgyFreeItemKeys, 1)]

SortedTiers == SortByThreshold(rewardTiers)
UnlockedTiers(items) == TiersAtOrBelow(SortedTiers, TotalPrice(items), 1)
UnlockedKeys(items) == {RewardKey(t) : t \in Range(UnlockedTiers(items))}
HasFreeShipping(items) == \E t \in Range(UnlockedTiers(items)) : t.rewardType = "free_shipping"

\* the line of this.cart that removeFreeGiftFromCart finds for a tier
GiftLineOf(e, tier) ==
  LET found == {l \in LineSet : /\ e.cart.items[l] > 0
                                /\ IsFreeGift(l)
                                /\ TierThresholdOf(l) = tier.threshold}
  IN IF e.cart.status # "ok" \/ found = {} THEN "-" ELSE CHOOSE l \in found : TRUE

\* the line that the add of a tier's gift creates or enlarges
GiftLineFor(tier) == "G1"

\* the check of addFreeGiftToCart against this.cart: same variant, tagged free gift
GiftAlreadyInCart(e, tier) ==
  /\ e.cart.status = "ok"
  /\ \E l \in LineSet : /\ e.cart.items[l] > 0
                        /\ IsFreeGift(l)
                        /\ ProductOf(l) = tier.rewardValue

\* end of refreshCart: the frame stays as "done" until the caller resumes
FinishPass(e, s) ==
  Result(e, SetTop(s, [Top(s) EXCEPT !.pc = "done", !.i = 1, !.key = NoKey, !.j = 1,
                                     !.rem = 0, !.br = "-", !.line = "-", !.qty = 0]))

\* the end of applyBxgyRewards counted as an action on the cart
FinishBxgyAsAction(e, s) ==
  FinishPass([e EXCEPT !.lastBxgyActionTime = now], s)
\* end of applyBxgyRewards (line 2076), then the rest of updateCartUI and refreshCart
FinishBxgy(e, s) ==
  LET q == calculateBxgyQualifyingQuantity(CartItems(Top(s).cart), Offer)
  IN FinishPass([e EXCEPT !.lastBxgyState = [earnedCycles |-> EarnedCycles(Offer, q),
                                             earnedFreeItems |-> EarnedForRewards(Offer, q)]], s)

\* removeBxgyFreeItems returned to applyBxgyRewards / applyAutomaticBxgyReward
AfterRemove(e, s) ==
  IF Top(s).br = "selZero" THEN FinishBxgy(hideSelectionPicker(e), s)
  ELSE FinishBxgy(e, s)

BxgyFreeLines(items) == LinesFrom(items, [l \in LineSet |-> IsBxgyFree(l)], 1)

\* the loop of removeBxgyFreeItems, from cursor j on, up to the next fetch
RemoveNext(e, s) ==
  LET f == Top(s)
      freeItems == BxgyFreeLines(f.cart)
  IN IF f.j > Len(freeItems) \/ f.rem <= 0
     THEN AfterRemove([e EXCEPT !.isInternalCartUpdate = FALSE], s)
     ELSE LET l == freeItems[f.j]
              removeQty == Min(f.cart[l], f.rem)
              newQty == f.cart[l] - removeQty
          IN Result(e, SetTop(s, [f EXCEPT !.pc = "bxgyRemove", !.line = l, !.qty = newQty,
                                           !.sent = @ \cup {Req("change", l, newQty)}]))

removeBxgyFreeItems(e, s, quantity, br) ==
  IF quantity <= 0 THEN AfterRemove(e, SetTop(s, [Top(s) EXCEPT !.br = br]))
  ELSE RemoveNext([e EXCEPT !.isInternalCartUpdate = TRUE],
                  SetTop(s, [Top(s) EXCEPT !.j = 1, !.rem = quantity, !.br = br]))

\* addAutomaticBxgyItem up to its first await
addAutomaticBxgyItem(e, s, quantity) ==
  Result([e EXCEPT !.isInternalCartUpdate = TRUE, !.isApplyingBxgy = TRUE],
         SetTop(s, [Top(s) EXCEPT !.pc = "autoLookup", !.qty = quantity]))

applyAutomaticBxgyReward(e, s, earnedFreeItems) ==
  LET currentFreeItems == countBxgyFreeItemsInCart(CartItems(Top(s).cart))
      e1 == [e EXCEPT !.lastBxgyActionTime = now]
  IN IF Offer.automaticProductHandle = "" THEN FinishBxgy(e, s)
     ELSE IF earnedFreeItems = currentFreeItems THEN FinishBxgy(e, s)
     ELSE IF earnedFreeItems > currentFreeItems
          THEN addAutomaticBxgyItem(e1, s, earnedFreeItems - currentFreeItems)
          ELSE removeBxgyFreeItems(e1, s, currentFreeItems - earnedFreeItems, "autoAdjust")

\* the time since the last action taken for a whole cooldown window
timeSinceLastActionLongAgo(e) == CooldownMs
\* applyBxgyRewards, lines 1985-1986: now - this.lastBxgyActionTime
timeSinceLastAction(e) == (now - e.lastBxgyActionTime) * TickMs

\* applyBxgyRewards up to its first await
applyBxgyRewards(e, s) ==
  IF e.isApplyingBxgy THEN FinishPass(e, s)
  ELSE IF ~BxgyOn THEN FinishPass(hideSelectionPicker(e), s)
  ELSE
    LET its == CartItems(Top(s).cart)
        qualifyingQty == calculateBxgyQualifyingQuantity(its, Offer)
        earnedFreeItems == EarnedForRewards(Offer, qualifyingQty)
        currentFreeItems == countBxgyFreeItemsInCart(its)
        acted == [e EXCEPT !.lastBxgyActionTime = now]
    IN CASE Offer.rewardMode = "cheapest_in_cart" -> FinishBxgy(hideSelectionPicker(e), s)
         [] Offer.rewardMode = "selection" ->
              IF earnedFreeItems = 0 /\ currentFreeItems > 0
              THEN removeBxgyFreeItems(acted, s, currentFreeItems, "selZero")
              ELSE IF currentFreeItems > earnedFreeItems
              THEN IF timeSinceLastAction(e) < CooldownMs THEN FinishBxgy(e, s)
                   ELSE removeBxgyFreeItems(acted, s, currentFreeItems - earnedFreeItems, "selExcess")
              ELSE IF earnedFreeItems > 0
              THEN FinishBxgy(showSelectionPicker(e, earnedFreeItems, its), s)
              ELSE FinishBxgy(hideSelectionPicker(e), s)
         [] Offer.rewardMode = "automatic" ->
              IF earnedFreeItems = 0 /\ currentFreeItems > 0
              THEN removeBxgyFreeItems(acted, s, currentFreeItems, "autoZero")
              ELSE IF timeSinceLastAction(e) >= CooldownMs
              THEN applyAutomaticBxgyReward(e, s, earnedFreeItems)
              ELSE FinishBxgy(e, s)
         [] OTHER -> FinishBxgy(e, s)

\* the attribute recompute that looks at the free-shipping flag only
AttrStepOnShippingOnly(e, s) ==
  LET f == Top(s)
      stateChanged == HasFreeShipping(f.cart) # e.lastRewardsState.hasShipping
  IN IF stateChanged
     THEN Result([e EXCEPT !.isInternalCartUpdate = TRUE],
                 SetTop(s, [f EXCEPT !.pc = "attrUpdate",
                                     !.sent = @ \cup {Req("update", "-", 0)}]))
     ELSE applyBxgyRewards(e, s)
\* applyRewards from line 1784 on: the attribute recompute
AttrStep(e, s) ==
  LET f == Top(s)
      stateChanged == \/ Len(UnlockedTiers(f.cart)) # e.lastRewardsState.count
                      \/ HasFreeShipping(f.cart) # e.lastRewardsState.hasShipping
  IN IF stateChanged
     THEN Result([e EXCEPT !.isInternalCartUpdate = TRUE],
                 SetTop(s, [f EXCEPT !.pc = "attrUpdate",
                                     !.sent = @ \cup {Req("update", "-", 0)}]))
     ELSE applyBxgyRewards(e, s)

\* the remove loop of applyRewards (lines 1773-1782), up to the next fetch
RECURSIVE RemoveLoop(_, _)
RemoveLoop(e, s) ==
  LET f == Top(s)
      stale == KeysNotIn(e.appliedRewards, UnlockedKeys(f.cart))
  IN IF stale = <<>> THEN AttrStep(e, s)
     ELSE LET appliedKey == stale[1]
              tier == FindTier(SortedTiers, appliedKey, 1)
              giftItem == GiftLineOf(e, tier)
          IN IF tier.rewardType = "free_gift" /\ tier.rewardValue # "" /\ giftItem # "-"
             THEN Result([e EXCEPT !.isInternalCartUpdate = TRUE],
                         SetTop(s, [f EXCEPT !.pc = "giftRemove", !.key = appliedKey,
                                             !.line = giftItem, !.qty = 0,
                                             !.sent = @ \cup {Req("change", giftItem, 0)}]))
             ELSE RemoveLoop([e EXCEPT !.appliedRewards = WithoutKey(@, appliedKey)], s)

\* the apply loop of applyRewards (lines 1761-1770) from cursor i on, up to
\* the next fetch
RECURSIVE ApplyLoop(_, _)
ApplyLoop(e, s) ==
  LET f == Top(s)
      unlockedTiers == UnlockedTiers(f.cart)
  IN IF f.i > Len(unlockedTiers) THEN RemoveLoop(e, s)
     ELSE LET tier == unlockedTiers[f.i]
              rewardKey == RewardKey(tier)
          IN IF rewardKey \in Range(e.appliedRewards)
             THEN ApplyLoop(e, SetTop(s, [f EXCEPT !.i = @ + 1]))
             ELSE IF tier.rewardType = "free_gift" /\ tier.rewardValue # ""
             THEN Result(e, SetTop(s, [f EXCEPT !.pc = "giftLookup"]))
             ELSE ApplyLoop([e EXCEPT !.appliedRewards = WithKey(@, rewardKey)],
                            SetTop(s, [f EXCEPT !.i = @ + 1]))

\* the loop going on without marking the key
MarkAppliedDropped(e, s) ==
  ApplyLoop(e, SetTop(s, [Top(s) EXCEPT !.i = @ + 1]))

\* applyReward returned (line 1769): mark the key and go on with the loop
MarkApplied(e, s) ==
  LET f == Top(s)
      tier == UnlockedTiers(f.cart)[f.i]
  IN ApplyLoop([e EXCEPT !.appliedRewards = WithKey(@, RewardKey(tier))],
               SetTop(s, [f EXCEPT !.i = @ + 1]))

\* removeReward returned (line 1780): drop the key and go on with the loop
MarkRemoved(e, s) ==
  RemoveLoop([e EXCEPT !.appliedRewards = WithoutKey(@, Top(s).key)],
             SetTop(s, [Top(s) EXCEPT !.key = NoKey]))

applyRewards(e, s) ==
  IF Len(rewardTiers) = 0 THEN applyBxgyRewards(e, s)
  ELSE ApplyLoop(e, SetTop(s, [Top(s) EXCEPT !.i = 1]))

\* updateCartUI going to the BXGY step without running the tier step
updateCartUIBxgyFirst(e, s, items) ==
  LET e1 == [e EXCEPT !.cart = [status |-> "ok", items |-> items]]
      e2 == updateBxgyProgress(renderItems(e1, CartItems(items)), CartItems(items))
  IN applyBxgyRewards(e2, SetTop(s, [Top(s) EXCEPT !.cart = items, !.ran = TRUE]))
\* refreshCart after a 2xx response of /cart.js, then updateCartUI up to the
\* first await
updateCartUI(e, s, items) ==
  LET e1 == [e EXCEPT !.cart = [status |-> "ok", items |-> items]]
      e2 == updateBxgyProgress(renderItems(e1, CartItems(items)), CartItems(items))
  IN applyRewards(e2, SetTop(s, [Top(s) EXCEPT !.cart = items, !.ran = TRUE]))

\* updateCartAttributes, lines 1939-1961: the reduce over the discount tiers
RECURSIVE DiscountTiers(_, _)
DiscountTiers(ts, n) ==
  IF n > Len(ts) THEN <<>>
  ELSE (IF ts[n].rewardType \in {"discount_percent", "discount_fixed"} THEN <<ts[n]>> ELSE <<>>)
       \o DiscountTiers(ts, n + 1)
NoTier == [rewardType |-> "none", threshold |-> 0, rewardValue |-> ""]
\* parseFloat of the rewardValue strings of the configuration
ParseFloat(v) == CASE v = "5" -> 5 [] v = "10" -> 10 [] v = "20" -> 20 [] OTHER -> 0
\* the reduce that keeps the first tier on a type mismatch
RECURSIVE ReduceBestKeepingFirst(_, _, _)
ReduceBestKeepingFirst(ts, n, best) ==
  IF n > Len(ts) THEN best
  ELSE LET tier == ts[n]
           next == IF best = NoTier THEN tier
                   ELSE IF tier.rewardType = best.rewardType
                        THEN (IF ParseFloat(tier.rewardValue) > ParseFloat(best.rewardValue)
                              THEN tier ELSE best)
                   ELSE best
       IN ReduceBestKeepingFirst(ts, n + 1, next)
RECURSIVE ReduceBest(_, _, _)
ReduceBest(ts, n, best) ==
  IF n > Len(ts) THEN best
  ELSE LET tier == ts[n]
           next == IF best = NoTier THEN tier
                   ELSE IF tier.rewardType = best.rewardType
                        THEN (IF ParseFloat(tier.rewardValue) > ParseFloat(best.rewardValue)
                              THEN tier ELSE best)
                   ELSE IF tier.rewardType = "discount_percent" THEN tier ELSE best
       IN ReduceBest(ts, n + 1, next)
BestDiscount(unlockedTiers) == ReduceBest(DiscountTiers(unlockedTiers, 1), 1, NoTier)

\* the attributes object of updateCartAttributes; /cart/update.js merges it
\* into the attributes the cart already has
AttributesFor(unlockedTiers, old) ==
  LET best == BestDiscount(unlockedTiers)
      base == [old EXCEPT !.rewards_count = Len(unlockedTiers),
                          !.free_shipping =
                             IF \E t \in Range(unlockedTiers) : t.rewardType = "free_shipping"
                             THEN "true" ELSE "false"]
  IN IF best = NoTier THEN base
     ELSE [base EXCEPT !.discount_type = best.rewardType, !.discount_value = best.rewardValue]

\* ----------------------------------------------------------------- actions
Outcomes == {"ok", "rejected", "throw"}
\* what the remote answers: a request it cannot apply is answered non-2xx
Effective(o, applicable) == IF o = "ok" /\ ~applicable THEN "rejected" ELSE o
Inject(o) == /\ (o = "ok" \/ faults < MaxFaults)
             /\ faults' = IF o = "ok" THEN faults ELSE faults + 1

CanChange(l) == remote[l] > 0
CanAdd(l, n) == remote[l] + n <= Stock(l)

RemoveAt(seq, t) == SubSeq(seq, 1, t - 1) \o SubSeq(seq, t + 1, Len(seq))
NoDone == \A t \in 1..Len(tasks) : Top(tasks[t]).pc # "done"
Waiting(t, pc) == /\ NoDone
                  /\ Top(tasks[t]).pc = pc

Commit(t, r) ==
  /\ r.e.timers.refresh + r.e.timers.open <= MaxTimers
  /\ Len(r.s) <= MaxDepth
  /\ SetEng(r.e)
  /\ tasks' = IF r.s = <<>> THEN RemoveAt(tasks, t) ELSE [tasks EXCEPT ![t] = r.s]

Spawn(stacks) ==
  /\ NoDone
  /\ Len(tasks) + Len(stacks) <= MaxTasks
  /\ tasks' = tasks \o stacks

\* the drawer takes one gesture at a time: a click or an input change is
\* taken when no call chain is suspended (timers may be pending, and open()
\* and the timer callbacks start passes at any time)
Settled == tasks = <<>>

Tick ==
  /\ now < MaxNow
  /\ now = lastBxgyActionTime
  /\ now' = now + 1
  /\ UNCHANGED <<remote, attributes, config, cart, appliedRewards, lastRewardsState,
                 lastBxgyState, lastBxgyActionTime, isInternalCartUpdate, isApplyingBxgy,
                 isAddingSelectionItem, remainingFreeSlots, bxgyFreeItemKeys, bxgyProgress,
                 itemsToRender, selectionPickerActive, timers, tasks, faults, calls>>

EngineUnchanged ==
  UNCHANGED <<cart, appliedRewards, lastRewardsState, lastBxgyState, lastBxgyActionTime,
              isInternalCartUpdate, isApplyingBxgy, isAddingSelectionItem,
              remainingFreeSlots, bxgyFreeItemKeys, bxgyProgress, itemsToRender,
              selectionPickerActive, timers>>

\* a click or an input change in the drawer: updateQuantity / removeItem up
\* to the fetch of /cart/change.js
updateQuantity(l, q) ==
  /\ Settled
  /\ cart.status = "ok"
  /\ cart.items[l] > 0
  /\ ~IsFreeGift(l)
  /\ q # cart.items[l]
  /\ Spawn(<< <<[Frame("updateQuantity") EXCEPT !.line = l, !.qty = q]>> >>)
  /\ EngineUnchanged
  /\ UNCHANGED <<remote, attributes, config, now, faults, calls>>

\* the response of /cart/change.js reaches updateQuantity
updateQuantityResponse(t, o) ==
  LET f == Top(tasks[t])
      eff == Effective(o, CanChange(f.line))
      e1 == Intercept(Eng, eff = "ok", FALSE)
  IN /\ Waiting(t, "updateQuantity")
     /\ Inject(o)
     /\ remote' = IF eff = "ok" THEN [remote EXCEPT ![f.line] = f.qty] ELSE remote
     /\ Commit(t, IF eff = "throw" THEN Result(Eng, <<>>)
                  ELSE IF eff = "ok" THEN Result(e1, CallRefreshCart(<<>>))
                  ELSE Result(e1, <<>>))
     /\ UNCHANGED <<attributes, config, now, calls>>

\* addUpsellToCart up to the fetch of /cart/add.js
addUpsellToCart(l) ==
  /\ Settled
  /\ Spawn(<< <<[Frame("addUpsell") EXCEPT !.line = l, !.qty = 1]>> >>)
  /\ EngineUnchanged
  /\ UNCHANGED <<remote, attributes, config, now, faults, calls>>

addUpsellResponse(t, o) ==
  LET f == Top(tasks[t])
      eff == Effective(o, CanAdd(f.line, 1))
      e1 == Intercept(Eng, eff = "ok", TRUE)
  IN /\ Waiting(t, "addUpsell")
     /\ Inject(o)
     /\ remote' = IF eff = "ok" THEN [remote EXCEPT ![f.line] = @ + 1] ELSE remote
     /\ Commit(t, IF eff = "throw" THEN Result(Eng, <<>>)
                  ELSE IF eff = "ok" THEN Result(e1, CallRefreshCart(<<>>))
                  ELSE Result(e1, <<>>))
     /\ UNCHANGED <<attributes, config, now, calls>>

\* open(), from a click on a cart link
open ==
  /\ Spawn(<< CallRefreshCart(<<>>) >>)
  /\ EngineUnchanged
  /\ UNCHANGED <<remote, attributes, config, now, faults, calls>>

\* the callback of the interceptor's setTimeout (lines 960-965)
InterceptorTimer ==
  \/ /\ timers.refresh > 0
     /\ Spawn(<< CallRefreshCart(<<>>) >>)
     /\ timers' = [timers EXCEPT !.refresh = @ - 1]
  \/ /\ timers.open > 0
     /\ Spawn(<< CallRefreshCart(<<>>), CallRefreshCart(<<>>) >>)
     /\ timers' = [timers EXCEPT !.open = @ - 1]

timerFires ==
  /\ InterceptorTimer
  /\ UNCHANGED <<cart, appliedRewards, lastRewardsState, lastBxgyState, lastBxgyActionTime,
                 isInternalCartUpdate, isApplyingBxgy, isAddingSelectionItem,
                 remainingFreeSlots, bxgyFreeItemKeys, bxgyProgress, itemsToRender,
                 selectionPickerActive>>
  /\ UNCHANGED <<remote, attributes, config, now, faults, calls>>

\* the response of /cart.js reaches refreshCart
refreshCartResponse(t, o) ==
  LET s == tasks[t]
  IN /\ Waiting(t, "fetchCart")
     /\ Inject(o)
     /\ Commit(t, CASE o = "ok" -> updateCartUI(Eng, s, remote)
                    [] o = "rejected" ->
                         FinishPass([Eng EXCEPT !.cart = [status |-> "error", items |-> EmptyItems]], s)
                    [] OTHER -> FinishPass(Eng, s))
     /\ UNCHANGED <<remote, attributes, config, now, calls>>

\* refreshCart returned to the function that awaited it
refreshCartReturns(t) ==
  LET rest == Pop(tasks[t])
      back == [Eng EXCEPT !.isInternalCartUpdate = FALSE]
  IN /\ Top(tasks[t]).pc = "done"
     /\ Commit(t, IF rest = <<>> THEN Result(Eng, <<>>)
                  ELSE CASE Top(rest).pc = "giftAddRefresh" -> MarkApplied(back, rest)
                         [] Top(rest).pc = "giftRemoveRefresh" -> MarkRemoved(back, rest)
                         [] OTHER -> Result([back EXCEPT !.isAddingSelectionItem = FALSE], <<>>))
     /\ UNCHANGED <<remote, attributes, config, now, faults, calls>>

\* the response of /products/<handle>.js reaches addFreeGiftToCart
giftLookupResponse(t, o) ==
  LET s == tasks[t]
      f == Top(s)
      tier == UnlockedTiers(f.cart)[f.i]
      l == GiftLineFor(tier)
  IN /\ Waiting(t, "giftLookup")
     /\ Inject(o)
     /\ Commit(t, IF o = "ok" /\ ~GiftAlreadyInCart(Eng, tier)
                  THEN Result([Eng EXCEPT !.isInternalCartUpdate = TRUE],
                              SetTop(s, [f EXCEPT !.pc = "giftAdd", !.line = l, !.qty = 1,
                                                  !.sent = @ \cup {Req("add", l, 1)}]))
                  ELSE MarkApplied(Eng, Failing(s, "lookup", l, o)))
     /\ UNCHANGED <<remote, attributes, config, now, calls>>

\* the response of /cart/add.js reaches addFreeGiftToCart
giftAddResponse(t, o) ==
  LET s == tasks[t]
      f == Top(s)
      eff == Effective(o, CanAdd(f.line, 1))
      e1 == Intercept(Eng, eff = "ok", TRUE)
  IN /\ Waiting(t, "giftAdd")
     /\ Inject(o)
     /\ remote' = IF eff = "ok" THEN [remote EXCEPT ![f.line] = @ + 1] ELSE remote
     /\ Commit(t, IF eff = "throw"
                  THEN MarkApplied([Eng EXCEPT !.isInternalCartUpdate = FALSE],
                                   Failing(s, "add", f.line, eff))
                  ELSE Result(e1, CallRefreshCart(Failing(SetTop(s, [f EXCEPT !.pc = "giftAddRefresh"]),
                                                          "add", f.line, eff))))
     /\ UNCHANGED <<attributes, config, now, calls>>

\* the response of /cart/change.js reaches removeFreeGiftFromCart
giftRemoveResponse(t, o) ==
  LET s == tasks[t]
      f == Top(s)
      eff == Effective(o, CanChange(f.line))
      e1 == Intercept(Eng, eff = "ok", FALSE)
  IN /\ Waiting(t, "giftRemove")
     /\ Inject(o)
     /\ remote' = IF eff = "ok" THEN [remote EXCEPT ![f.line] = 0] ELSE remote
     /\ Commit(t, IF eff = "throw"
                  THEN MarkRemoved([Eng EXCEPT !.isInternalCartUpdate = FALSE],
                                   Failing(s, "change", f.line, eff))
                  ELSE Result(e1, CallRefreshCart(Failing(SetTop(s, [f EXCEPT !.pc = "giftRemoveRefresh"]),
                                                          "change", f.line, eff))))
     /\ UNCHANGED <<attributes, config, now, calls>>

\* the response of /cart/update.js reaches updateCartAttributes
attrUpdateResponse(t, o) ==
  LET s == tasks[t]
      f == Top(s)
      unlockedTiers == UnlockedTiers(f.cart)
      e1 == Intercept(Eng, o = "ok", FALSE)
      e2 == [(IF o = "throw" THEN Eng ELSE e1) EXCEPT
               !.isInternalCartUpdate = FALSE,
               !.lastRewardsState = [count |-> Len(unlockedTiers),
                                     hasShipping |-> HasFreeShipping(f.cart)]]
  IN /\ Waiting(t, "attrUpdate")
     /\ Inject(o)
     /\ attributes' = IF o = "ok" THEN AttributesFor(unlockedTiers, attributes) ELSE attributes
     /\ Commit(t, applyBxgyRewards(e2, Failing(s, "update", "-", o)))
     /\ UNCHANGED <<remote, config, now, calls>>

\* the response of /cart/change.js reaches removeBxgyFreeItems
bxgyRemoveResponse(t, o) ==
  LET s == tasks[t]
      f == Top(s)
      eff == Effective(o, CanChange(f.line))
      e1 == Intercept(Eng, eff = "ok", FALSE)
      removeQty == f.cart[f.line] - f.qty
  IN /\ Waiting(t, "bxgyRemove")
     /\ Inject(o)
     /\ remote' = IF eff = "ok" THEN [remote EXCEPT ![f.line] = f.qty] ELSE remote
     /\ Commit(t, IF eff = "throw"
                  THEN AfterRemove([Eng EXCEPT !.isInternalCartUpdate = FALSE],
                                   Failing(s, "change", f.line, eff))
                  ELSE RemoveNext(e1, Failing(SetTop(s, [f EXCEPT !.j = @ + 1, !.rem = @ - removeQty]),
                                              "change", f.line, eff)))
     /\ UNCHANGED <<attributes, config, now, calls>>

\* the finally of addAutomaticBxgyItem (lines 2609-2614)
\* a finally block that schedules the refresh and leaves the flags set
AutomaticFinallyKeepingFlags(e) == [e EXCEPT !.timers.refresh = @ + 1]
AutomaticFinally(e) ==
  [e EXCEPT !.isInternalCartUpdate = FALSE, !.isApplyingBxgy = FALSE, !.timers.refresh = @ + 1]

\* the response of /products/<handle>.js reaches addAutomaticBxgyItem
autoLookupResponse(t, o) ==
  LET s == tasks[t]
      f == Top(s)
  IN /\ Waiting(t, "autoLookup")
     /\ Inject(o)
     /\ Commit(t, IF o = "ok"
                  THEN Result(Eng, SetTop(s, [f EXCEPT !.pc = "autoAdd", !.line = "F1",
                                                       !.sent = @ \cup {Req("add", "F1", f.qty)}]))
                  ELSE FinishBxgy(AutomaticFinally(Eng),
                                  Failing(s, "lookup", "F1", o)))
     /\ UNCHANGED <<remote, attributes, config, now, calls>>

\* the response of /cart/add.js reaches addAutomaticBxgyItem
autoAddResponse(t, o) ==
  LET s == tasks[t]
      f == Top(s)
      eff == Effective(o, CanAdd(f.line, f.qty))
      e1 == Intercept(Eng, eff = "ok", TRUE)
  IN /\ Waiting(t, "autoAdd")
     /\ Inject(o)
     /\ remote' = IF eff = "ok" THEN [remote EXCEPT ![f.line] = @ + f.qty] ELSE remote
     /\ Commit(t, FinishBxgy(AutomaticFinally(IF eff = "throw" THEN Eng ELSE e1),
                             Failing(s, "add", f.line, eff)))
     /\ UNCHANGED <<attributes, config, now, calls>>

\* a click on an add button of the selection picker (lines 876-889), then
\* addSelectionItem up to the fetch of /cart/add.js; the picker offers the
\* products p1 and p2
addSelectionItem(product) ==
  LET addAsFree == remainingFreeSlots > 0
      l == IF product = "p1" THEN (IF addAsFree THEN "F1" ELSE "P1")
           ELSE (IF addAsFree THEN "F2" ELSE "P2")
  IN /\ Settled
     /\ selectionPickerActive
     /\ ~isAddingSelectionItem
     /\ Spawn(<< <<[Frame("selectionAdd") EXCEPT !.line = l, !.qty = 1,
                                                 !.sent = {Req("add", l, 1)}]>> >>)
     /\ isAddingSelectionItem' = TRUE
     /\ isInternalCartUpdate' = TRUE
     /\ lastBxgyActionTime' = now
     /\ UNCHANGED <<cart, appliedRewards, lastRewardsState, lastBxgyState, isApplyingBxgy,
                    remainingFreeSlots, bxgyFreeItemKeys, bxgyProgress, itemsToRender,
                    selectionPickerActive, timers>>
     /\ UNCHANGED <<remote, attributes, config, now, faults, calls>>

\* the response of /cart/add.js reaches addSelectionItem
selectionAddResponse(t, o) ==
  LET s == tasks[t]
      f == Top(s)
      eff == Effective(o, CanAdd(f.line, 1))
      e1 == Intercept(Eng, eff = "ok", TRUE)
      cleared == [Eng EXCEPT !.isInternalCartUpdate = FALSE, !.isAddingSelectionItem = FALSE]
  IN /\ Waiting(t, "selectionAdd")
     /\ Inject(o)
     /\ remote' = IF eff = "ok" THEN [remote EXCEPT ![f.line] = @ + 1] ELSE remote
     /\ Commit(t, IF eff = "ok"
                  THEN Result(e1, CallRefreshCart(SetTop(s, [f EXCEPT !.pc = "selectionRefresh"])))
                  ELSE Result(cleared, <<>>))
     /\ UNCHANGED <<attributes, config, now, calls>>

\* one disjunct per handler segment
UpdateQuantity == \E l \in LineSet, q \in 0..MaxQty : q <= Stock(l) /\ updateQuantity(l, q)
AddUpsellToCart == \E l \in upsells : addUpsellToCart(l)
AddSelectionItem == \E p \in {"p1", "p2"} : addSelectionItem(p)
Open == open
TimerFires == timerFires
UpdateQuantityResponse == \E t \in 1..Len(tasks), o \in Outcomes : updateQuantityResponse(t, o)
AddUpsellResponse == \E t \in 1..Len(tasks), o \in Outcomes : addUpsellResponse(t, o)
RefreshCartResponse == \E t \in 1..Len(tasks), o \in Outcomes : refreshCartResponse(t, o)
RefreshCartReturns == \E t \in 1..Len(tasks) : refreshCartReturns(t)
GiftLookupResponse == \E t \in 1..Len(tasks), o \in Outcomes : giftLookupResponse(t, o)
GiftAddResponse == \E t \in 1..Len(tasks), o \in Outcomes : giftAddResponse(t, o)
GiftRemoveResponse == \E t \in 1..Len(tasks), o \in Outcomes : giftRemoveResponse(t, o)
AttrUpdateResponse == \E t \in 1..Len(tasks), o \in Outcomes : attrUpdateResponse(t, o)
BxgyRemoveResponse == \E t \in 1..Len(tasks), o \in Outcomes : bxgyRemoveResponse(t, o)
AutoLookupResponse == \E t \in 1..Len(tasks), o \in Outcomes : autoLookupResponse(t, o)
AutoAddResponse == \E t \in 1..Len(tasks), o \in Outcomes : autoAddResponse(t, o)
SelectionAddResponse == \E t \in 1..Len(tasks), o \in Outcomes : selectionAddResponse(t, o)

Next ==
  \/ UpdateQuantity
  \/ AddUpsellToCart
  \/ AddSelectionItem
  \/ Open
  \/ TimerFires
  \/ UpdateQuantityResponse
  \/ AddUpsellResponse
  \/ RefreshCartResponse
  \/ RefreshCartReturns
  \/ GiftLookupResponse
  \/ GiftAddResponse
  \/ GiftRemoveResponse
  \/ AttrUpdateResponse
  \/ BxgyRemoveResponse
  \/ AutoLookupResponse
  \/ AutoAddResponse
  \/ SelectionAddResponse
  \/ Tick

\* ---------------------------------------------------------- initial states
\* no direct call of a pure method is made in a session of the drawer
NoCall == [method |-> "none"]

NoAttributes == [rewards_count |-> -1, free_shipping |-> "", discount_type |-> "",
                 discount_value |-> ""]

\* the state after the constructor and loadSettings: init() is suspended in
\* its first refreshCart
Constructed ==
  /\ attributes = NoAttributes
  /\ cart = [status |-> "null", items |-> EmptyItems]
  /\ appliedRewards = <<>>
  /\ lastRewardsState = [count |-> 0, hasShipping |-> FALSE]
  /\ lastBxgyState = [earnedCycles |-> 0, earnedFreeItems |-> 0]
  /\ lastBxgyActionTime = 0
  /\ isInternalCartUpdate = FALSE
  /\ isApplyingBxgy = FALSE
  /\ isAddingSelectionItem = FALSE
  /\ remainingFreeSlots = 0
  /\ bxgyFreeItemKeys = <<>>
  /\ bxgyProgress = [currentQty |-> 0, earnedFreeItems |-> 0, freeItemsInCart |-> 0]
  /\ itemsToRender = <<>>
  /\ selectionPickerActive = FALSE
  /\ timers = [refresh |-> 0, open |-> 0]
  /\ now = CooldownMs \div TickMs
  /\ faults = 0
InitEngine ==
  /\ Constructed
  /\ tasks = << CallRefreshCart(<<>>) >>
  /\ callArgs = NoCall
  /\ callRet = NoCall

Modes == {"cheapest_in_cart", "selection", "automatic"}

Configured(enabled, tiers, mode, ups) ==
  /\ InitEngine
  /\ remote = EmptyItems
  /\ settings = [bxgyEnabled |-> enabled]
  /\ rewardTiers = tiers
  /\ bxgyOffers = <<OfferOf(mode, 1, 1)>>
  /\ upsells = ups

\* a session with reward tiers and no BXGY offer
InitTiers == Configured(FALSE, <<TierGift, TierShipping>>, "selection", {"P1"})
\* sessions with one BXGY offer and no reward tier
InitCheapest == Configured(TRUE, <<>>, "cheapest_in_cart", {"P1", "P2"})
InitSelection == Configured(TRUE, <<>>, "selection", {"P1"})
InitAutomatic == Configured(TRUE, <<>>, "automatic", {"P1"})

Init == InitTiers \/ InitCheapest \/ InitSelection \/ InitAutomatic
Spec == Init /\ [][Next]_vars

\* the passes of a session that starts on an arbitrary cart of ordinary lines
\* with an arbitrary offer, without any gesture
EvalCarts == {c \in [LineSet -> 0..MaxIn] : \A l \in LineSet : l \notin {"P1", "P2"} => c[l] = 0}
InitEval ==
  /\ InitEngine
  /\ remote \in EvalCarts
  /\ settings = [bxgyEnabled |-> TRUE]
  /\ rewardTiers = <<>>
  /\ bxgyOffers \in {<<OfferOf(m, b, g)>> : m \in Modes, b \in 1..MaxBuy, g \in 1..MaxGet}
  /\ upsells = {}
NextEval ==
  \/ RefreshCartResponse
  \/ RefreshCartReturns
  \/ AutoLookupResponse
  \/ AutoAddResponse
  \/ TimerFires
SpecEval == InitEval /\ [][NextEval]_vars

\* sessions with reward tiers whose triggers are spaced out: the session
\* starts on an arbitrary cart, and a gesture or a timer callback arrives
\* only when no call chain is suspended, so that passes overlap only by
\* nesting
TierLists == {<<TierGift, TierShipping>>, <<TierPercent, TierShipping, TierGift>>, <<TierPercent>>}
SeqCarts == {c \in [LineSet -> 0..MaxQty] :
               /\ \A l \in LineSet : c[l] <= Stock(l)
               /\ \A l \in LineSet : IsBxgyFree(l) => c[l] = 0
               /\ c["G1"] <= 1}
InitSeq ==
  /\ InitEngine
  /\ remote \in SeqCarts
  /\ settings = [bxgyEnabled |-> FALSE]
  /\ rewardTiers \in TierLists
  /\ bxgyOffers = <<>>
  /\ upsells = {}
OpenSettled == Settled /\ open
RefreshTimerSettled == Settled /\ timers.open = 0 /\ timerFires
NextSeq ==
  \/ UpdateQuantity
  \/ OpenSettled
  \/ RefreshTimerSettled
  \/ UpdateQuantityResponse
  \/ RefreshCartResponse
  \/ RefreshCartReturns
  \/ GiftLookupResponse
  \/ GiftAddResponse
  \/ GiftRemoveResponse
  \/ AttrUpdateResponse
SpecSeq == InitSeq /\ [][NextSeq]_vars

\* sessions whose reward tiers are discount tiers, of every type, value and
\* order; the session starts on a cart of P1 and runs its passes
DiscountTierSet ==
  {[rewardType |-> ty, threshold |-> th, rewardValue |-> v] :
     ty \in {"discount_percent", "discount_fixed"}, th \in {2, 4}, v \in {"5", "10"}}
DiscountTierLists == UNION {[1..n -> DiscountTierSet] : n \in 1..MaxTiers}
InitDiscount ==
  /\ InitEngine
  /\ remote \in {[EmptyItems EXCEPT !["P1"] = q] : q \in 0..MaxQty}
  /\ settings = [bxgyEnabled |-> FALSE]
  /\ rewardTiers \in DiscountTierLists
  /\ bxgyOffers = <<>>
  /\ upsells = {}
NextDiscount ==
  \/ RefreshCartResponse
  \/ AttrUpdateResponse
  \/ RefreshCartReturns
SpecDiscount == InitDiscount /\ [][NextDiscount]_vars

\* sessions in cheapest_in_cart mode that start on an arbitrary cart of
\* ordinary lines with an arbitrary offer; the shopper edits quantities and
\* opens the drawer
InitCheapestCarts ==
  /\ InitEngine
  /\ remote \in EvalCarts
  /\ settings = [bxgyEnabled |-> TRUE]
  /\ rewardTiers = <<>>
  /\ bxgyOffers \in {<<OfferOf("cheapest_in_cart", b, g)>> : b \in 1..MaxBuy, g \in 1..MaxGet}
  /\ upsells = {}
NextCheapest ==
  \/ UpdateQuantity
  \/ Open
  \/ TimerFires
  \/ UpdateQuantityResponse
  \/ RefreshCartResponse
  \/ RefreshCartReturns
SpecCheapest == InitCheapestCarts /\ [][NextCheapest]_vars

\* sessions with reward tiers and a BXGY offer (selection mode) together,
\* starting on a cart of paying units and picked free units: every pass runs
\* the tier step and the BXGY step, and the shopper changes quantities while
\* passes are in flight
BothCarts == {c \in [LineSet -> 0..MaxQty] :
                c["P2"] = 0 /\ c["F2"] = 0 /\ c["G1"] = 0}
InitBoth ==
  /\ InitEngine
  /\ remote \in BothCarts
  /\ settings = [bxgyEnabled |-> TRUE]
  /\ rewardTiers = <<TierShipping, TierGift>>
  /\ bxgyOffers = <<OfferOf("selection", 2, 1)>>
  /\ upsells = {}
NextBoth ==
  \/ UpdateQuantity
  \/ Open
  \/ TimerFires
  \/ UpdateQuantityResponse
  \/ RefreshCartResponse
  \/ RefreshCartReturns
  \/ GiftLookupResponse
  \/ GiftAddResponse
  \/ GiftRemoveResponse
  \/ AttrUpdateResponse
  \/ BxgyRemoveResponse
SpecBoth == InitBoth /\ [][NextBoth]_vars

\* sessions configured with two BXGY offers of different reward modes,
\* starting on an arbitrary cart of ordinary lines, without any gesture
OfferPairs == {<<OfferOf(ms[1], 1, 1), OfferOf(ms[2], 2, 1)>> :
                 ms \in {p \in Modes \X Modes : p[1] # p[2]}}
InitOffers ==
  /\ InitEngine
  /\ remote \in {c \in EvalCarts : \A l \in LineSet : c[l] <= MaxQty}
  /\ settings = [bxgyEnabled |-> TRUE]
  /\ rewardTiers = <<>>
  /\ bxgyOffers \in OfferPairs
  /\ upsells = {}
SpecOffers == InitOffers /\ [][NextEval]_vars

\* sessions with one BXGY offer of selection or automatic mode, in which the
\* event loop is fair: a timer callback that is due runs, a call chain whose
\* pass is complete resumes, and time passes.  The shopper's gestures are not
\* fair (they may stop at any time), and neither is the network (the fetch
\* calls have no timeout).
NextLive ==
  \/ UpdateQuantity
  \/ AddUpsellToCart
  \/ AddSelectionItem
  \/ Open
  \/ TimerFires
  \/ UpdateQuantityResponse
  \/ AddUpsellResponse
  \/ RefreshCartResponse
  \/ RefreshCartReturns
  \/ BxgyRemoveResponse
  \/ AutoLookupResponse
  \/ AutoAddResponse
  \/ SelectionAddResponse
  \/ Tick
SpecLive ==
  /\ InitSelection \/ InitAutomatic
  /\ [][NextLive]_vars
  /\ WF_vars(TimerFires) /\ WF_vars(RefreshCartReturns) /\ WF_vars(Tick)

\* sessions in automatic mode that start on an arbitrary cart of ordinary
\* lines and receive no gesture: every pass after the first one is started
\* by a follow-up refresh.  A request may take a whole cooldown window; the
\* 100 ms of a pending timer never do.
TickInFlight == timers.refresh = 0 /\ timers.open = 0 /\ Tick
InitRetry ==
  /\ InitEngine
  /\ remote \in EvalCarts
  /\ settings = [bxgyEnabled |-> TRUE]
  /\ rewardTiers = <<>>
  /\ bxgyOffers \in {<<OfferOf("automatic", b, g)>> : b \in 1..MaxBuy, g \in 1..MaxGet}
  /\ upsells = {}
NextRetry ==
  \/ RefreshCartResponse
  \/ RefreshCartReturns
  \/ AutoLookupResponse
  \/ AutoAddResponse
  \/ TimerFires
  \/ TickInFlight
SpecRetry == InitRetry /\ [][NextRetry]_vars

\* ------------------------------------------------ the pure methods, called directly
\* The cart of a direct call has the lines A, B, C in cart order; a line is
\* ordinary ("none"), tagged _popcart_bxgy_free ("bxgy") or tagged
\* _popcart_free_gift ("gift"); a line of quantity 0 is not in the cart.
CalcKeys == <<"A", "B", "C">>
CalcIdx == 1..Len(CalcKeys)
CalcProduct(k) == IF k = 2 THEN "p2" ELSE "p1"
CalcTags == {"none", "bxgy", "gift"}
PriceLists == {<<5, 2, 8>>, <<2, 2, 5>>, <<8, 5, 5>>}
CalcItem(a, k) ==
  [key |-> CalcKeys[k], product_id |-> CalcProduct(k), price |-> a.prices[k],
   quantity |-> a.qty[k], free_gift |-> a.tags[k] = "gift", bxgy_free |-> a.tags[k] = "bxgy"]
RECURSIVE CalcItemsFrom(_, _)
CalcItemsFrom(a, k) ==
  IF k > Len(CalcKeys) THEN <<>>
  ELSE (IF a.qty[k] > 0 THEN <<CalcItem(a, k)>> ELSE <<>>) \o CalcItemsFrom(a, k + 1)
CalcCart(a) == CalcItemsFrom(a, 1)

\* the offers of the direct calls: every shape of appliesToType / productIds
ProductsOffer(mode, ty, kind, ids) ==
  [OfferOf(mode, 2, 1) EXCEPT !.appliesToType = ty, !.productIds = [kind |-> kind, ids |-> ids]]
CalcOffers ==
  UNION {{ProductsOffer(m, "all", "missing", {}),
          ProductsOffer(m, "collection", "missing", {}),
          ProductsOffer(m, "products", "list", {"p1"}),
          ProductsOffer(m, "products", "malformed", {}),
          ProductsOffer(m, "products", "missing", {}),
          ProductsOffer(m, "products", "notStrings", {}),
          ProductsOffer(m, "products", "notStrings", {"p1"}),
          ProductsOffer(m, "collection", "malformed", {}),
          ProductsOffer(m, "vendor", "list", {"p1"})} : m \in {"cheapest_in_cart", "selection"}}

CallOf(method, prices, qty, tags, offer, n) ==
  [method |-> method, prices |-> prices, qty |-> qty, tags |-> tags, offer |-> offer,
   numFreeItems |-> n]

InitCalc ==
  /\ Constructed
  /\ tasks = <<>>
  /\ remote = EmptyItems
  /\ settings = [bxgyEnabled |-> FALSE]
  /\ rewardTiers = <<>>
  /\ bxgyOffers = <<>>
  /\ upsells = {}
  /\ callRet = NoCall
InitQualifying ==
  /\ InitCalc
  /\ callArgs \in {CallOf("calculateBxgyQualifyingQuantity", <<5, 2, 8>>, q, tg, o, 0) :
                     q \in [CalcIdx -> 0..MaxLineQty], tg \in [CalcIdx -> CalcTags],
                     o \in CalcOffers}
InitCheapestFree ==
  /\ InitCalc
  /\ callArgs \in {CallOf("calculateCheapestFreeItems", pr, q, tg, o, n) :
                     pr \in PriceLists, q \in [CalcIdx -> 0..MaxLineQty],
                     tg \in {t \in [CalcIdx -> CalcTags] : t[1] # "gift" /\ t[2] # "gift"},
                     o \in {ProductsOffer("cheapest_in_cart", "all", "missing", {}),
                            ProductsOffer("cheapest_in_cart", "products", "list", {"p1"})},
                     n \in 0..MaxFree}

\* what a call of calculateBxgyQualifyingQuantity returns, with the two
\* entitlements the engine derives from it
QualifyingOf(a) ==
  LET q == calculateBxgyQualifyingQuantity(CalcCart(a), a.offer)
  IN [method |-> a.method, value |-> q,
      progress |-> EarnedForProgress(a.offer, q), rewards |-> EarnedForRewards(a.offer, q)]

EngineIdle ==
  /\ EngineUnchanged
  /\ UNCHANGED <<remote, attributes, config, tasks, now, faults>>

CallQualifyingQuantity ==
  /\ callArgs.method = "calculateBxgyQualifyingQuantity"
  /\ callRet = NoCall
  /\ callRet' = QualifyingOf(callArgs)
  /\ UNCHANGED callArgs
  /\ EngineIdle

\* the same call again after a free-tagged line was added, removed or resized
ChangeFreeLine ==
  /\ callArgs.method = "calculateBxgyQualifyingQuantity"
  /\ callRet # NoCall
  /\ \E k \in CalcIdx, q \in 0..MaxLineQty :
       /\ callArgs.tags[k] # "none"
       /\ q # callArgs.qty[k]
       /\ callArgs' = [callArgs EXCEPT !.qty[k] = q]
       /\ callRet' = QualifyingOf(callArgs')
  /\ EngineIdle

CallCheapestFreeItems ==
  /\ callArgs.method = "calculateCheapestFreeItems"
  /\ callRet = NoCall
  /\ callRet' = [method |-> callArgs.method,
                 value |-> calculateCheapestFreeItems(CalcCart(callArgs), callArgs.offer,
                                                      callArgs.numFreeItems)]
  /\ UNCHANGED callArgs
  /\ EngineIdle

NextCalc ==
  \/ CallQualifyingQuantity
  \/ ChangeFreeLine
  \/ CallCheapestFreeItems
SpecCalc == (InitQualifying \/ InitCheapestFree) /\ [][NextCalc]_vars

\* ------------------------------------------------------------ observations
\* the suspended frames, as <<task, depth>>
Frames == UNION {{<<t, k>> : k \in 1..Len(tasks[t])} : t \in 1..Len(tasks)}
FrameAt(p) == tasks[p[1]][p[2]]
\* frames of the click handlers; every other frame is a refreshCart call
HandlerPcs == {"updateQuantity", "addUpsell", "selectionAdd", "selectionRefresh"}
IsPass(f) == f.pc \notin HandlerPcs
\* passes that have begun and have not run to completion
PassesInFlight == {p \in Frames : IsPass(FrameAt(p)) /\ FrameAt(p).pc # "done"}
\* passes that evaluated a snapshot and have just run to completion
CompletedPasses == {p \in Frames : FrameAt(p).pc = "done" /\ FrameAt(p).ran}
\* nothing suspended, nothing scheduled
AtRest == tasks = <<>> /\ timers.refresh = 0 /\ timers.open = 0
\* one call chain only, made of one pass that has just completed
CompletedAlone == /\ Len(tasks) = 1
                  /\ Len(tasks[1]) = 1
                  /\ tasks[1][1].pc = "done"
                  /\ tasks[1][1].ran

ModeIs(modes) == BxgyOn /\ Offer.rewardMode \in modes
TaggedLines(items) == {l \in LineSet : IsBxgyFree(l) /\ items[l] > 0}
TaggedUnits(items) == SumOver([l \in LineSet |-> IF IsBxgyFree(l) THEN items[l] ELSE 0], LineSet)
\* the units of a cart that count towards an offer applying to all products
UntaggedUnits(items) ==
  SumOver([l \in LineSet |-> IF IsBxgyFree(l) \/ IsFreeGift(l) THEN 0 ELSE items[l]], LineSet)
\* floor(q / b) * g, by the definition of floor
IsCycleEntitlement(n, q, b, g) == \E k \in 0..q : k * b <= q /\ q < (k + 1) * b /\ n = k * g
\* max(0, min(g, q - b)), by cases
CheapestEntitlement(q, b, g) == IF q <= b THEN 0 ELSE IF q - b >= g THEN g ELSE q - b

GiftKey == RewardKey(TierGift)
HasGiftTier == TierGift \in Range(rewardTiers)

\* ------------------------------------------------------------------- claims
\* C1: at most one reconciliation pass is in flight at any time: a second
\* pass does not begin before the pass in flight has run to completion.
C1_SinglePassInFlight == Cardinality(PassesInFlight) <= 1

\* C2: in selection mode, every pass whose snapshot gives entitlement 0 while
\* lines are tagged _popcart_bxgy_free has issued, when it completes, a
\* quantity-0 change for every tagged line of the snapshot.
C2_ThresholdLossRemovesAll ==
  ModeIs({"selection"}) =>
    \A p \in CompletedPasses :
      LET f == FrameAt(p)
      IN (/\ IsCycleEntitlement(0, UntaggedUnits(f.cart), Offer.buyQuantity, Offer.getQuantity)
          /\ TaggedLines(f.cart) # {})
         => \A l \in TaggedLines(f.cart) : Req("change", l, 0) \in f.sent

\* C3: in selection and automatic modes the units tagged _popcart_bxgy_free in
\* the remote cart never exceed the entitlement floor(Q / B) * G of that same
\* cart.  The claim is about every reachable state; it is stated here for the
\* states in which the engine is at rest, where it has nothing left to do.
C3_FreeUnitsWithinEntitlement ==
  (ModeIs({"selection", "automatic"}) /\ AtRest) =>
    \E n \in 0..(MaxQty * Len(LineIds)) :
      /\ IsCycleEntitlement(n, UntaggedUnits(remote), Offer.buyQuantity, Offer.getQuantity)
      /\ TaggedUnits(remote) <= n

\* C4: the remote cart never holds more than one free-gift unit of a tier.
C4_NoDoubleGift == \A l \in LineSet : IsFreeGift(l) => remote[l] <= 1

\* C5: after the remote rejected a free-gift mutation of a pass, no further
\* attempt at that mutation is made from within that pass: no pass nested in
\* it issues the mutation again.
C5_NoRetryAfterRejection ==
  \A t \in 1..Len(tasks) : \A k \in 1..Len(tasks[t]) : \A n \in 1..Len(tasks[t]) :
    \A x \in tasks[t][k].failed :
      (k < n /\ x.how = "rejected" /\ IsFreeGift(x.line) /\ x.op \in {"add", "change"})
      => ~\E r \in tasks[t][n].sent : r.op = x.op /\ r.line = x.line

\* C6: after every completed pass, a free_gift key is in appliedRewards if and
\* only if a line tagged _popcart_free_gift with the tier's threshold is in
\* the cart (the mirror agrees with the remote cart here).
C6_KeyIffGiftLine ==
  (HasGiftTier /\ CompletedAlone /\ cart.status = "ok" /\ cart.items = remote) =>
    (GiftKey \in Range(appliedRewards)
       <=> \E l \in LineSet : /\ IsFreeGift(l)
                              /\ TierThresholdOf(l) = TierGift.threshold
                              /\ remote[l] > 0)

\* C7: the key of a free_gift tier enters appliedRewards only once the gift
\* line is in the cart: not after a failed lookup, a rejected add or a
\* network error.
C7_KeyOnlyAfterSuccessfulAdd ==
  [][(/\ Len(tasks) = 1
      /\ GiftKey \notin Range(appliedRewards)
      /\ GiftKey \in Range(appliedRewards'))
     => \E l \in LineSet : IsFreeGift(l) /\ remote'[l] > 0]_vars

\* C8: running applyRewards a second time on the snapshot of a pass that has
\* just completed issues no cart mutation and no attribute update: it goes
\* straight through to the end of the pass.
SecondRun(f) == applyRewards(Eng, <<[Frame("fetchCart") EXCEPT !.cart = f.cart, !.ran = TRUE]>>)
C8_ApplyRewardsIdempotent ==
  Len(rewardTiers) > 0 =>
    \A p \in CompletedPasses :
      LET r == SecondRun(FrameAt(p))
      IN /\ Top(r.s).pc = "done"
         /\ Top(r.s).sent = {}
         /\ r.e.isInternalCartUpdate = isInternalCartUpdate
C8_Witness ==
  /\ Len(rewardTiers) > 0
  /\ \E p \in CompletedPasses :
       /\ Req("add", "G1", 1) \in FrameAt(p).sent
       /\ Top(SecondRun(FrameAt(p)).s).pc = "done"
       /\ Top(SecondRun(FrameAt(p)).s).sent = {}

\* C9: in cheapest_in_cart mode the entitlement computed from the mirror cart
\* of Q qualifying units is max(0, min(G, Q - B)), and it is the number of
\* units the allocation marks free (B=3, G=3: Q=3 gives 0, Q=4 gives 1, Q=6
\* gives 3, Q=10 gives 3).
C9_CheapestEntitlement ==
  (ModeIs({"cheapest_in_cart"}) /\ cart.status = "ok") =>
    LET q == UntaggedUnits(cart.items)
        b == Offer.buyQuantity
        g == Offer.getQuantity
        n == bxgyProgress.earnedFreeItems
    IN /\ bxgyProgress.currentQty = q
       /\ n = CheapestEntitlement(q, b, g)
       /\ MapSum(bxgyFreeItemKeys) = n
       /\ (q <= b => n = 0)
       /\ n <= g
       /\ (b = 3 /\ g = 3 /\ q = 3 => n = 0)
       /\ (b = 3 /\ g = 3 /\ q = 4 => n = 1)
       /\ (b = 3 /\ g = 3 /\ q = 6 => n = 3)
       /\ (b = 3 /\ g = 3 /\ q = 10 => n = 3)
C9_Witness ==
  /\ ModeIs({"cheapest_in_cart"})
  /\ cart.status = "ok"
  /\ Offer.buyQuantity = 3
  /\ Offer.getQuantity = 3
  /\ UntaggedUnits(cart.items) = 10
  /\ bxgyProgress.earnedFreeItems = 3
  /\ MapSum(bxgyFreeItemKeys) = 3

\* C10: in selection and automatic modes the entitlement a pass computes from
\* its snapshot of Q qualifying units is floor(Q / B) * G, in the progress
\* display and in applyBxgyRewards alike (B=3, G=1: Q=5 gives 1, Q=6 gives 2,
\* Q=8 gives 2).
C10_CycleEntitlement ==
  ModeIs({"selection", "automatic"}) =>
    \A p \in CompletedPasses :
      LET f == FrameAt(p)
          q == UntaggedUnits(f.cart)
          b == Offer.buyQuantity
          g == Offer.getQuantity
          n == lastBxgyState.earnedFreeItems
      IN /\ IsCycleEntitlement(n, q, b, g)
         /\ (cart.items = f.cart => bxgyProgress.earnedFreeItems = n)
         /\ (q >= b => n >= g)
         /\ (b = 3 /\ g = 1 /\ q = 5 => n = 1)
         /\ (b = 3 /\ g = 1 /\ q = 6 => n = 2)
         /\ (b = 3 /\ g = 1 /\ q = 8 => n = 2)
C10_Witness ==
  /\ ModeIs({"selection", "automatic"})
  /\ \E p \in CompletedPasses :
       /\ UntaggedUnits(FrameAt(p).cart) = 6
       /\ Offer.buyQuantity = 3
       /\ Offer.getQuantity = 1
       /\ lastBxgyState.earnedFreeItems = 2

\* the lines of a direct call that count towards its offer, stated from the
\* arguments: untagged, and satisfying the product predicate
CalcSatisfies(a, k) ==
  \/ a.offer.appliesToType \in {"all", "collection"}
  \/ /\ a.offer.appliesToType = "products"
     /\ a.offer.productIds.kind \in {"list", "notStrings"}
     /\ CalcProduct(k) \in a.offer.productIds.ids
CalcQualifying(a) == {k \in CalcIdx : a.tags[k] = "none" /\ CalcSatisfies(a, k)}
CalcTotal(a) == SumOver([k \in CalcIdx |-> a.qty[k]], CalcQualifying(a))
CalcFree(k) == MapGet(callRet.value, CalcKeys[k])

\* C11: calculateBxgyQualifyingQuantity returns the sum of the quantities of
\* exactly the lines that satisfy the offer's product predicate and carry
\* neither tag; adding, removing or resizing a free-tagged line changes
\* neither the qualifying quantity nor the entitlement.
C11_QualifyingCounted ==
  callRet.method = "calculateBxgyQualifyingQuantity" => callRet.value = CalcTotal(callArgs)
C11_FreeLinesIgnored ==
  (callRet # NoCall /\ callRet' # NoCall /\ callArgs' # callArgs) => callRet' = callRet
C11_QualifyingQuantity == []C11_QualifyingCounted /\ [][C11_FreeLinesIgnored]_vars
C11_Witness ==
  /\ callRet.method = "calculateBxgyQualifyingQuantity"
  /\ callArgs.offer.appliesToType = "products"
  /\ callArgs.tags = <<"none", "none", "gift">>
  /\ callArgs.qty = <<2, 3, 1>>
  /\ callRet.value = 2
  /\ callRet.rewards = 1

\* C12: for every cart and every entitlement N >= 0 the allocation of
\* calculateCheapestFreeItems sums to min(N, total quantity of the qualifying
\* untagged lines), and no line's free count exceeds the line's quantity.
C12_AllocationTotal ==
  callRet.method = "calculateCheapestFreeItems" =>
    /\ MapSum(callRet.value) = Min(callArgs.numFreeItems, CalcTotal(callArgs))
    /\ \A n \in 1..Len(callRet.value) :
         \E k \in CalcQualifying(callArgs) :
           /\ callRet.value[n].key = CalcKeys[k]
           /\ callRet.value[n].free <= callArgs.qty[k]
    /\ \A n, m \in 1..Len(callRet.value) :
         callRet.value[n].key = callRet.value[m].key => n = m
C12_Witness ==
  /\ callRet.method = "calculateCheapestFreeItems"
  /\ callArgs.numFreeItems > CalcTotal(callArgs)
  /\ CalcTotal(callArgs) = 3
  /\ MapSum(callRet.value) = 3
  /\ Len(callRet.value) = 2

\* C13: the allocation goes cheapest first: a line has a free unit only if
\* every qualifying line that is strictly cheaper, or of the same price and
\* earlier in the cart, is entirely free; the lines are entered in that order
\* (lines (A,5,qty 3), (B,2,qty 2), (C,8,qty 1) with N = 3 give B:2, A:1 and
\* nothing for C).
C13_CheapestFirst ==
  callRet.method = "calculateCheapestFreeItems" =>
    /\ \A j, k \in CalcQualifying(callArgs) :
         (/\ callArgs.qty[j] > 0
          /\ CalcFree(k) > 0
          /\ \/ callArgs.prices[j] < callArgs.prices[k]
             \/ callArgs.prices[j] = callArgs.prices[k] /\ j < k)
         => CalcFree(j) = callArgs.qty[j]
    /\ \A n \in 1..Len(callRet.value) : callRet.value[n].free > 0
    /\ (/\ callArgs.prices = <<5, 2, 8>>
        /\ callArgs.qty = <<3, 2, 1>>
        /\ callArgs.tags = <<"none", "none", "none">>
        /\ callArgs.offer.appliesToType = "all"
        /\ callArgs.numFreeItems = 3)
       => callRet.value = <<[key |-> "B", free |-> 2], [key |-> "A", free |-> 1]>>
C13_Witness ==
  /\ callRet.method = "calculateCheapestFreeItems"
  /\ callArgs.prices = <<5, 2, 8>>
  /\ callArgs.qty = <<3, 2, 1>>
  /\ callArgs.tags = <<"none", "none", "none">>
  /\ callArgs.offer.appliesToType = "all"
  /\ callArgs.numFreeItems = 3
  /\ callRet.value = <<[key |-> "B", free |-> 2], [key |-> "A", free |-> 1]>>

\* the rows renderItems built for a line, as indices of itemsToRender
RowsFor(l) == {n \in 1..Len(itemsToRender) : itemsToRender[n].key = l}
RenderedLines == {itemsToRender[n].key : n \in 1..Len(itemsToRender)}

\* C14: for every key of bxgyFreeItemKeys the free count is at most the
\* quantity of that line in the mirror cart, in every state and at every
\* point at which the allocation is read: renderItems never reads for a line
\* a free count above the quantity of the line it renders.
C14_FreeWithinQuantity ==
  /\ cart.status = "ok" =>
       \A n \in 1..Len(bxgyFreeItemKeys) :
         bxgyFreeItemKeys[n].free <= cart.items[bxgyFreeItemKeys[n].key]
  /\ \A n \in 1..Len(itemsToRender) : itemsToRender[n].freeQty <= itemsToRender[n].quantity

\* C15: the displayQty of the rows renderItems builds for a line sum to the
\* line's quantity, whatever bxgyFreeItemKeys holds for it, and the line is
\* split into a paid row and a free row exactly when 0 < free < quantity.
C15_RowsSumToQuantity ==
  /\ cart.status = "ok" =>
       /\ RenderedLines = {l \in LineSet : cart.items[l] > 0}
       /\ \A n \in 1..Len(itemsToRender) :
            itemsToRender[n].quantity = cart.items[itemsToRender[n].key]
  /\ \A l \in RenderedLines :
       LET rows == RowsFor(l)
           first == itemsToRender[CHOOSE n \in rows : \A m \in rows : n <= m]
           last == itemsToRender[CHOOSE n \in rows : \A m \in rows : n >= m]
           split == 0 < first.freeQty /\ first.freeQty < first.quantity
       IN /\ SumOver([n \in rows |-> itemsToRender[n].displayQty], rows) = first.quantity
          /\ Cardinality(rows) = IF split THEN 2 ELSE 1
          /\ split => /\ first.isPaidPortion /\ ~first.isFreePortionSplit
                      /\ first.displayQty = first.quantity - first.freeQty
                      /\ ~last.isPaidPortion /\ last.isFreePortionSplit
                      /\ last.displayQty = last.freeQty
          /\ ~split => ~first.isFreePortionSplit
C15_Witness ==
  /\ cart.status = "ok"
  /\ \E n \in 1..Len(itemsToRender) :
       /\ itemsToRender[n].isFreePortionSplit
       /\ itemsToRender[n].displayQty = 2
       /\ itemsToRender[n].quantity > 2
       /\ MapGet(bxgyFreeItemKeys, itemsToRender[n].key) # itemsToRender[n].freeQty

\* the discount tiers a cart unlocks, and the largest value among those of a type
UnlockedDiscounts(items, ty) == {t \in Range(UnlockedTiers(items)) : t.rewardType = ty}
IsLargestOf(v, ts) ==
  /\ \E t \in ts : t.rewardValue = v
  /\ \A t \in ts : ParseFloat(t.rewardValue) <= ParseFloat(v)

\* C16: the attributes updateCartAttributes writes name the best unlocked
\* discount: a discount_percent tier if one is unlocked, whatever the values
\* of the discount_fixed tiers and whatever the order of the tiers, and among
\* the tiers of that type the largest rewardValue.
C16_BestDiscount ==
  \A p \in CompletedPasses :
    LET f == FrameAt(p)
        percent == UnlockedDiscounts(f.cart, "discount_percent")
        fixed == UnlockedDiscounts(f.cart, "discount_fixed")
    IN (Req("update", "-", 0) \in f.sent /\ f.failed = {}) =>
         /\ percent # {} =>
              /\ attributes.discount_type = "discount_percent"
              /\ IsLargestOf(attributes.discount_value, percent)
         /\ (percent = {} /\ fixed # {}) =>
              /\ attributes.discount_type = "discount_fixed"
              /\ IsLargestOf(attributes.discount_value, fixed)
C16_Witness ==
  \E p \in CompletedPasses :
    LET ts == UnlockedTiers(FrameAt(p).cart)
    IN /\ Req("update", "-", 0) \in FrameAt(p).sent
       /\ FrameAt(p).failed = {}
       /\ Len(ts) = 3
       /\ ts[1].rewardType = "discount_percent" /\ ts[1].rewardValue = "5"
       /\ ts[2].rewardType = "discount_fixed" /\ ts[2].rewardValue = "10"
       /\ ts[3].rewardType = "discount_percent" /\ ts[3].rewardValue = "10"
       /\ attributes.discount_type = "discount_percent"
       /\ attributes.discount_value = "10"

\* a step in which the pass of call chain t evaluates the snapshot it fetched
Evaluates(t) ==
  /\ t \in 1..Len(tasks)
  /\ Len(tasks') = Len(tasks)
  /\ Top(tasks[t]).pc = "fetchCart"
  /\ ~Top(tasks[t]).ran
  /\ Len(tasks'[t]) = Len(tasks[t])
  /\ Top(tasks'[t]).ran
\* the entitlement floor(Q / B) * G of a cart, for the offer of the session
EntitlementIs(n, items) ==
  IsCycleEntitlement(n, UntaggedUnits(items), Offer.buyQuantity, Offer.getQuantity)
\* the first request of a removal of n tagged units from a cart
FirstRemoval(items, n) ==
  LET l == BxgyFreeLines(items)[1]
  IN Req("change", l, IF items[l] <= n THEN 0 ELSE items[l] - n)

\* C17: in selection mode, a pass whose snapshot has more tagged free units
\* than its entitlement, the entitlement being positive, removes the excess
\* if at least 2000 ms have elapsed since lastBxgyActionTime and only then;
\* if less time has elapsed it issues no cart mutation and leaves
\* lastBxgyActionTime unchanged.
C17_Gate(t) ==
  LET f == Top(tasks'[t])
      tagged == TaggedUnits(remote)
  IN \A n \in 1..(MaxQty * Len(LineIds)) :
       (ModeIs({"selection"}) /\ Evaluates(t) /\ EntitlementIs(n, remote) /\ tagged > n) =>
         IF now * TickMs - lastBxgyActionTime * TickMs >= 2000
         THEN /\ f.pc = "bxgyRemove"
              /\ f.rem = tagged - n
              /\ f.sent = {FirstRemoval(remote, tagged - n)}
              /\ lastBxgyActionTime' = now
         ELSE /\ f.pc = "done"
              /\ f.sent = {}
              /\ lastBxgyActionTime' = lastBxgyActionTime
              /\ remote' = remote
C17_CooldownGate == [][\A t \in 1..MaxTasks : C17_Gate(t)]_vars
C17_Witness ==
  /\ ModeIs({"selection"})
  /\ lastBxgyActionTime = now
  /\ \E p \in Frames :
       /\ FrameAt(p).pc = "bxgyRemove"
       /\ FrameAt(p).br = "selExcess"
       /\ TaggedUnits(FrameAt(p).cart) = 2
       /\ EntitlementIs(1, FrameAt(p).cart)
       /\ FrameAt(p).rem = 1

\* C18: in automatic mode, every pass whose snapshot gives entitlement 0 while
\* lines are tagged _popcart_bxgy_free has issued, when it completes, a
\* quantity-0 change for every tagged line of the snapshot, whatever the
\* cooldown state and whatever else is in flight.
C18_AutomaticLossRemovesAll ==
  ModeIs({"automatic"}) =>
    \A p \in CompletedPasses :
      LET f == FrameAt(p)
      IN (EntitlementIs(0, f.cart) /\ TaggedLines(f.cart) # {})
         => \A l \in TaggedLines(f.cart) : Req("change", l, 0) \in f.sent

\* C19: in selection mode the engine never adds a line on its own.  A pass
\* whose entitlement exceeds the tagged free units of its snapshot issues no
\* cart mutation and sets remainingFreeSlots to the difference; no pass
\* issues an add; a tagged line enters the remote cart only through the add
\* of addSelectionItem.
C19_Pass(t) ==
  LET f == Top(tasks'[t])
      tagged == TaggedUnits(remote)
  IN \A n \in 1..(MaxQty * Len(LineIds)) :
       (Evaluates(t) /\ EntitlementIs(n, remote) /\ n > tagged) =>
         /\ f.pc = "done"
         /\ f.sent = {}
         /\ remainingFreeSlots' = n - tagged
         /\ remote' = remote
C19_Step ==
  ModeIs({"selection"}) =>
    /\ \A t \in 1..MaxTasks : C19_Pass(t)
    /\ \A l \in LineSet :
         (IsBxgyFree(l) /\ remote[l] = 0 /\ remote'[l] > 0) =>
           \E t \in 1..Len(tasks) : /\ Top(tasks[t]).pc = "selectionAdd"
                                     /\ Top(tasks[t]).line = l
C19_NoAddByPass ==
  ModeIs({"selection"}) =>
    \A p \in Frames : IsPass(FrameAt(p)) => \A r \in FrameAt(p).sent : r.op # "add"
C19_NeverAddsOnItsOwn == []C19_NoAddByPass /\ [][C19_Step]_vars
C19_Witness ==
  /\ ModeIs({"selection"})
  /\ remainingFreeSlots = 1
  /\ \E p \in CompletedPasses :
       /\ FrameAt(p).sent = {}
       /\ EntitlementIs(2, FrameAt(p).cart)
       /\ TaggedUnits(FrameAt(p).cart) = 1
       /\ cart.items = FrameAt(p).cart

\* C20: in cheapest_in_cart mode a pass issues no cart mutation, for any
\* cart: it sets the allocation bxgyFreeItemKeys (and hides the picker) and
\* leaves the remote cart, its attributes and lastBxgyActionTime unchanged.
C20_Pass(t) ==
  LET f == Top(tasks'[t])
  IN Evaluates(t) =>
       /\ f.pc = "done"
       /\ f.sent = {}
       /\ remote' = remote
       /\ attributes' = attributes
       /\ lastBxgyActionTime' = lastBxgyActionTime
       /\ ~selectionPickerActive'
       /\ MapSum(bxgyFreeItemKeys')
            = CheapestEntitlement(UntaggedUnits(remote), Offer.buyQuantity, Offer.getQuantity)
       /\ UNCHANGED <<appliedRewards, lastRewardsState, isInternalCartUpdate, isApplyingBxgy,
                      isAddingSelectionItem, remainingFreeSlots, timers>>
C20_NoMutation ==
  [][ModeIs({"cheapest_in_cart"}) => \A t \in 1..MaxTasks : C20_Pass(t)]_vars
C20_Witness ==
  /\ ModeIs({"cheapest_in_cart"})
  /\ MapSum(bxgyFreeItemKeys) = 2
  /\ lastBxgyActionTime = 0
  /\ \E p \in CompletedPasses :
       /\ FrameAt(p).sent = {}
       /\ FrameAt(p).cart = remote
       /\ cart.items = remote
       /\ UntaggedUnits(remote) = 4

\* the cart writes issued by the engine, by the await their frame waits at:
\* free-gift add and removal, attribute update, BXGY removal, automatic add
\* and selection add
EngineWritePcs == {"giftAdd", "giftRemove", "attrUpdate", "bxgyRemove", "autoAdd", "selectionAdd"}
EngineWritesInFlight == {p \in Frames : FrameAt(p).pc \in EngineWritePcs}

\* C21: while a cart write issued by the engine is in flight
\* isInternalCartUpdate is true, so that the interceptor sees the flag set
\* when the response arrives, also when two engine operations overlap.
C21_WritesTaggedInternal ==
  EngineWritesInFlight # {} => isInternalCartUpdate

\* the step in which the successful response of a cart write of the shopper
\* (updateQuantity, addUpsellToCart: writes the engine does not tag) passes
\* through the patched fetch and returns to its handler, which goes on to
\* its own refreshCart
ShopperWriteSucceeds(t) ==
  /\ t <= Len(tasks)
  /\ Len(tasks') = Len(tasks)
  /\ Top(tasks[t]).pc \in {"updateQuantity", "addUpsell"}
  /\ Top(tasks'[t]).pc = "fetchCart"
PendingTimers(tm) == tm.refresh + tm.open

\* C22: every successful cart write that the engine did not initiate makes
\* the interceptor schedule a refresh (one more pending timer), also when
\* its response arrives while an engine write is in flight.
C22_Step == \A t \in 1..MaxTasks :
  ShopperWriteSucceeds(t) => PendingTimers(timers') = PendingTimers(timers) + 1
C22_ExternalWritesRefresh == [][C22_Step]_vars

\* the cart-line mutations a frame has issued (the attribute update is not one)
Mutations(f) == {r \in f.sent : r.op \in {"add", "change"}}
\* the step in which the pass of task t, called by no other pass, completes
PassCompletes(t) ==
  /\ t <= Len(tasks)
  /\ Len(tasks') = Len(tasks)
  /\ Len(tasks'[t]) = 1
  /\ IsPass(tasks[t][1])
  /\ tasks[t][1].pc # "done"
  /\ tasks'[t][1].pc = "done"

\* C23: a refresh that follows a mutation is not a further mutating pass
\* started recursively (a pass called from within a pass issues no cart-line
\* mutation); a pass that issued no mutation schedules no follow-up refresh;
\* a pass whose BXGY step issued a mutation (it calls no refreshCart itself)
\* leaves exactly one follow-up refresh scheduled.
C23_NoRecursiveMutation ==
  \A p \in Frames :
    (p[2] >= 2 /\ IsPass(FrameAt(p)) /\ IsPass(FrameAt(<<p[1], p[2] - 1>>)))
      => Mutations(FrameAt(p)) = {}
C23_Step == \A t \in 1..MaxTasks :
  PassCompletes(t) =>
    LET f == tasks'[t][1]
    IN /\ Mutations(f) = {} => PendingTimers(timers') = PendingTimers(timers)
       /\ (\E r \in Mutations(f) : IsBxgyFree(r.line))
            => PendingTimers(timers') = PendingTimers(timers) + 1
C23_OneFollowUpRefresh == []C23_NoRecursiveMutation /\ [][C23_Step]_vars

\* the step in which the fetch of /cart.js of task t fails: the request
\* throws, or the shop answers with a non-2xx response
RefreshFails(t) ==
  /\ t <= Len(tasks)
  /\ Len(tasks') = Len(tasks)
  /\ Top(tasks[t]).pc = "fetchCart"
  /\ tasks'[t] # tasks[t]
  /\ faults' = faults + 1

\* C24: when the cart fetch of refreshCart fails, this.cart keeps its
\* previous value and the refresh runs no reward-tier and no BXGY evaluation.
C24_Step == \A t \in 1..MaxTasks :
  RefreshFails(t) =>
    /\ cart' = cart
    /\ ~Top(tasks'[t]).ran
    /\ Top(tasks'[t]).sent = {}
    /\ UNCHANGED <<appliedRewards, lastRewardsState, lastBxgyState, lastBxgyActionTime,
                   bxgyFreeItemKeys, bxgyProgress, remainingFreeSlots>>
C24_FailedFetchKeepsCart == [][C24_Step]_vars

\* the step in which a change request of removeBxgyFreeItems fails (the
\* fetch throws, or the shop answers non-2xx) while the batch has units left
\* to remove on a further tagged line of the snapshot
RemovalFailsMidBatch(t) ==
  /\ t <= Len(tasks)
  /\ Len(tasks') = Len(tasks)
  /\ Top(tasks[t]).pc = "bxgyRemove"
  /\ tasks'[t] # tasks[t]
  /\ faults' = faults + 1
  /\ LET f == Top(tasks[t])
     IN /\ f.j < Len(BxgyFreeLines(f.cart))
        /\ f.rem > f.cart[f.line] - f.qty

\* C25: when the change request for one tagged line fails,
\* removeBxgyFreeItems goes on to issue the change request for the next
\* tagged line of the batch.
C25_Step == \A t \in 1..MaxTasks :
  RemovalFailsMidBatch(t) =>
    LET f == Top(tasks[t])
        g == Top(tasks'[t])
        next == BxgyFreeLines(f.cart)[f.j + 1]
    IN /\ g.pc = "bxgyRemove"
       /\ g.line = next
       /\ \E r \in g.sent : r.op = "change" /\ r.line = next
C25_RemovalBestEffort == [][C25_Step]_vars

\* an offer that names its products by a list and whose list cannot be used:
\* missing, not valid JSON, or not a list of id strings; and an offer of a
\* type the engine does not know
ListUnusable(offer) ==
  /\ offer.appliesToType # "all"
  /\ \/ offer.productIds.kind \in {"missing", "malformed", "notStrings"}
     \/ offer.appliesToType \notin {"products", "collection"}

\* C26: for an offer whose product-id list is missing, is not valid JSON or
\* is not a list of id strings, and for an offer of an unrecognised type, no
\* line qualifies: the qualifying quantity and both entitlements are 0.
C26_FailSafeQualification ==
  (callRet.method = "calculateBxgyQualifyingQuantity" /\ ListUnusable(callArgs.offer))
    => /\ callRet.value = 0
       /\ callRet.progress = 0
       /\ callRet.rewards = 0

\* the awaits of the BXGY step
BxgyStepPcs == {"bxgyRemove", "autoLookup", "autoAdd"}
\* the pass of task t completes a BXGY step that was not turned away by the
\* isApplyingBxgy guard
BxgyStepCompletes(t) ==
  /\ PassCompletes(t)
  /\ tasks'[t][1].ran
  /\ ~RefreshFails(t)
  /\ Top(tasks[t]).pc \in BxgyStepPcs \/ ~isApplyingBxgy

\* C27: within every pass the tier step has completed when the BXGY step
\* starts (the apply loop has gone through every unlocked tier and no
\* removal is pending), and the BXGY step evaluates the snapshot the pass
\* fetched: what it removes and what it records in lastBxgyState derive from
\* that snapshot, whatever the tier step or the shopper did to the cart since.
C27_TierStepFirst ==
  \A p \in Frames :
    LET f == FrameAt(p)
    IN f.pc \in BxgyStepPcs =>
         /\ f.i = Len(UnlockedTiers(f.cart)) + 1
         /\ f.key = NoKey
         /\ \A r \in Mutations(f) : IsBxgyFree(r.line) => f.cart[r.line] > 0
C27_SameSnapshot == \A t \in 1..MaxTasks :
  BxgyStepCompletes(t) =>
    \E n \in 0..(MaxQty * Len(LineIds)) :
      /\ EntitlementIs(n, tasks'[t][1].cart)
      /\ lastBxgyState'.earnedFreeItems = n
C27_TierThenBxgy == []C27_TierStepFirst /\ [][C27_SameSnapshot]_vars
C27_Witness ==
  \E p \in CompletedPasses :
    LET f == FrameAt(p)
    IN /\ Req("add", "G1", 1) \in f.sent
       /\ f.failed = {}
       /\ \E r \in f.sent : r.op = "change" /\ IsBxgyFree(r.line)
       /\ f.cart["G1"] = 0
       /\ remote["G1"] = 1

\* the tier of an applied key, and whether a cart's total reaches it
TierOfKey(k) == CHOOSE tier \in Range(rewardTiers) : RewardKey(tier) = k
KeyUnlocked(k, items) == TotalPrice(items) >= TierOfKey(k).threshold
DroppedKeys == Range(appliedRewards) \ Range(appliedRewards')

\* C28: the remove pass of applyRewards.  A key leaves appliedRewards only
\* when its tier is not unlocked in the snapshot of the pass at work (keys of
\* unlocked tiers are kept); for a free_gift tier whose gift line is in the
\* snapshot the pass has issued the quantity-0 change of that line, and the
\* line is gone from the cart unless the request failed; for the
\* attribute-only types the pass issues no cart-line mutation; and when the
\* pass completes no key of a tier that its snapshot leaves locked remains.
C28_Step ==
  \A k \in DroppedKeys :
    LET f == Top(tasks'[1])
    IN /\ ~KeyUnlocked(k, f.cart)
       /\ (TierOfKey(k).rewardType = "free_gift" /\ f.cart["G1"] > 0)
            => /\ Req("change", "G1", 0) \in f.sent
               /\ f.failed = {} => remote'["G1"] = 0
       /\ \A r \in Mutations(f) : IsFreeGift(r.line)
C28_NoStaleKeyLeft ==
  \A p \in CompletedPasses :
    \A k \in Range(appliedRewards) : KeyUnlocked(k, FrameAt(p).cart)
RewardsStateOf(items) ==
  [count |-> Len(UnlockedTiers(items)),
   hasShipping |-> \E tier \in Range(rewardTiers) :
                     tier.rewardType = "free_shipping" /\ TotalPrice(items) >= tier.threshold]
AttributePush == Req("update", "-", 0)

\* C29: a pass posts the attribute update if and only if the unlocked count
\* or the free-shipping flag of its snapshot differs from lastRewardsState;
\* the update writes that count, that flag and the best unlocked discount,
\* and when it has returned lastRewardsState records the count and the flag.
C29_Step == \A t \in 1..MaxTasks :
  (t <= Len(tasks) /\ Len(tasks') = Len(tasks) /\ tasks'[t] # tasks[t]) =>
    LET f == Top(tasks'[t])
        pre == Top(tasks[t])
        percent == UnlockedDiscounts(pre.cart, "discount_percent")
        fixed == UnlockedDiscounts(pre.cart, "discount_fixed")
    IN /\ f.pc = "attrUpdate" =>
            /\ lastRewardsState # RewardsStateOf(f.cart)
            /\ AttributePush \in f.sent
       /\ (f.pc = "done" /\ f.ran /\ Len(rewardTiers) > 0 /\ AttributePush \notin f.sent) =>
            lastRewardsState = RewardsStateOf(f.cart)
       /\ pre.pc = "attrUpdate" =>
            /\ lastRewardsState' = RewardsStateOf(pre.cart)
            /\ faults' = faults =>
                 /\ attributes'.rewards_count = RewardsStateOf(pre.cart).count
                 /\ attributes'.free_shipping
                      = (IF RewardsStateOf(pre.cart).hasShipping THEN "true" ELSE "false")
                 /\ percent # {} =>
                      /\ attributes'.discount_type = "discount_percent"
                      /\ IsLargestOf(attributes'.discount_value, percent)
                 /\ (percent = {} /\ fixed # {}) =>
                      /\ attributes'.discount_type = "discount_fixed"
                      /\ IsLargestOf(attributes'.discount_value, fixed)
                 /\ (percent = {} /\ fixed = {}) =>
                      /\ attributes'.discount_type = attributes.discount_type
                      /\ attributes'.discount_value = attributes.discount_value
C29_AttributesIffStateChanged == [][C29_Step]_vars
C29_Witness ==
  /\ attributes.rewards_count = 2
  /\ attributes.free_shipping = "true"
  /\ attributes.discount_value = "10"
  /\ lastRewardsState = [count |-> 2, hasShipping |-> TRUE]
  /\ \E p \in CompletedPasses :
       /\ FrameAt(p).sent = {}
       /\ RewardsStateOf(FrameAt(p).cart) = lastRewardsState

\* the cooldown of 2000 ms since lastBxgyActionTime has elapsed
CooldownElapsed == now * TickMs - lastBxgyActionTime * TickMs >= 2000
\* the step in which addAutomaticBxgyItem, its lookup answered, posts the add
AutomaticAddPosted(t) ==
  /\ t <= Len(tasks)
  /\ Len(tasks') = Len(tasks)
  /\ Top(tasks[t]).pc = "autoLookup"
  /\ Top(tasks'[t]).pc = "autoAdd"

\* C30: in automatic mode a pass whose entitlement n is positive and differs
\* from the tagged free units of its snapshot, the cooldown having elapsed,
\* closes the gap with one request: an add of n minus the tagged units of
\* the preset product, or a change that takes the tagged units down to n;
\* when the two are equal, or the cooldown is active, it issues no mutation.
C30_Pass(t) ==
  LET f == Top(tasks'[t])
      tagged == TaggedUnits(remote)
  IN \A n \in 0..(MaxQty * Len(LineIds)) :
       (Evaluates(t) /\ EntitlementIs(n, remote)) =>
         /\ (n > 0 /\ n > tagged /\ CooldownElapsed) =>
              /\ f.pc = "autoLookup"
              /\ f.qty = n - tagged
              /\ f.sent = {}
         /\ (n > 0 /\ n < tagged /\ CooldownElapsed) =>
              /\ f.pc = "bxgyRemove"
              /\ f.sent = {FirstRemoval(remote, tagged - n)}
              /\ TaggedUnits([remote EXCEPT ![f.line] = f.qty]) = n
         /\ (n = tagged \/ (n > 0 /\ ~CooldownElapsed)) =>
              /\ f.pc = "done"
              /\ f.sent = {}
              /\ remote' = remote
C30_Add(t) ==
  AutomaticAddPosted(t) =>
    /\ Top(tasks'[t]).sent = {Req("add", "F1", Top(tasks[t]).qty)}
    /\ ProductOf("F1") = Offer.automaticProductHandle
C30_Step == ModeIs({"automatic"}) => \A t \in 1..MaxTasks : C30_Pass(t) /\ C30_Add(t)
C30_SingleBatchedMutation == [][C30_Step]_vars

\* the step in which call chain t starts a cart-mutating BXGY action other
\* than the zero-entitlement removal: an automatic add, the removal of an
\* excess, or addSelectionItem
StartsGatedBxgyAction(t) ==
  /\ t <= Len(tasks')
  /\ \/ /\ t <= Len(tasks)
        /\ Len(tasks') = Len(tasks)
        /\ Top(tasks[t]).pc \notin {"autoLookup", "bxgyRemove"}
        /\ \/ Top(tasks'[t]).pc = "autoLookup"
           \/ /\ Top(tasks'[t]).pc = "bxgyRemove"
              /\ Top(tasks'[t]).br \in {"selExcess", "autoAdjust"}
     \/ /\ t > Len(tasks)
        /\ Top(tasks'[t]).pc = "selectionAdd"

\* C31: apart from the zero-entitlement removal, a cart-mutating BXGY action
\* (automatic add, excess removal, addSelectionItem) starts only when at
\* least 2000 ms have elapsed since the BXGY action before it
\* (lastBxgyActionTime).
C31_Step == \A t \in 1..MaxTasks : StartsGatedBxgyAction(t) => CooldownElapsed
C31_ActionsSpacedByCooldown == [][C31_Step]_vars

\* the step in which the /cart/update.js of call chain t fails (network
\* error or non-2xx answer)
AttributePushFails(t) ==
  /\ t <= Len(tasks)
  /\ Len(tasks') = Len(tasks)
  /\ Top(tasks[t]).pc = "attrUpdate"
  /\ tasks'[t] # tasks[t]
  /\ faults' = faults + 1

\* C32: when the attribute push fails, lastRewardsState keeps its previous
\* value (and the cart's attributes are unchanged), so that the next pass
\* with the same unlocked set pushes the attributes again.
C32_Step == \A t \in 1..MaxTasks :
  AttributePushFails(t) =>
    /\ attributes' = attributes
    /\ lastRewardsState' = lastRewardsState
    /\ lastRewardsState' # RewardsStateOf(Top(tasks[t]).cart)
C32_FailedPushRetried == [][C32_Step]_vars

\* what the pass of call chain t does for one offer o, by o's reward mode,
\* when it evaluates its snapshot with the cooldown elapsed and no automatic
\* add in flight
DispatchedFor(t, o) ==
  LET f == Top(tasks'[t])
      q == calculateBxgyQualifyingQuantity(CartItems(remote), o)
      tagged == TaggedUnits(remote)
  IN CASE o.rewardMode = "automatic" ->
            EarnedForRewards(o, q) > tagged =>
              /\ f.pc = "autoLookup"
              /\ f.qty = EarnedForRewards(o, q) - tagged
       [] o.rewardMode = "selection" ->
            EarnedForRewards(o, q) > tagged =>
              /\ selectionPickerActive'
              /\ remainingFreeSlots' = EarnedForRewards(o, q) - tagged
       [] OTHER ->
            MapSum(bxgyFreeItemKeys') = EarnedForProgress(o, q)

\* C33: with BXGY enabled each pass evaluates every configured BXGY offer:
\* for each offer of bxgyOffers it computes the qualifying quantity and the entitlement and
\* dispatches by that offer's reward mode.
C33_Step == \A t \in 1..MaxTasks :
  (settings.bxgyEnabled /\ Evaluates(t) /\ CooldownElapsed /\ ~isApplyingBxgy) =>
    \A k \in 1..Len(bxgyOffers) : DispatchedFor(t, bxgyOffers[k])
C33_EveryOfferEvaluated == [][C33_Step]_vars

\* the tagged free units of the remote cart against its entitlement
Converged ==
  LET earned == EarnedForRewards(Offer, UntaggedUnits(remote))
  IN /\ ModeIs({"automatic"}) => TaggedUnits(remote) = earned
     /\ ModeIs({"selection"}) => TaggedUnits(remote) <= earned
\* C34: convergence: if the external triggers stop, so that the engine comes
\* to rest for good, and every remote call succeeds, the engine eventually
\* reaches, and then stays in, a state in which the tagged BXGY free units
\* equal the entitlement (automatic mode) or do not exceed it (selection
\* mode), wherever the last cart edit fell with respect to the 2-second
\* cooldown window.
C34_Convergence ==
  (<>[]AtRest /\ [](faults = 0)) => <>[]Converged

\* max(0, entitlement - tagged free units) of a snapshot
FreeSlotsLeft(items) ==
  LET earned == EarnedForRewards(Offer, UntaggedUnits(items))
      tagged == TaggedUnits(items)
  IN IF earned > tagged THEN earned - tagged ELSE 0
\* C35: in selection mode, when a pass completes its BXGY step,
\* remainingFreeSlots equals max(0, entitlement - tagged free units) of the
\* snapshot of that pass, in every branch of the step (zero entitlement and
\* excess removal included).
C35_Step ==
  \A t \in 1..MaxTasks :
    (ModeIs({"selection"}) /\ BxgyStepCompletes(t)) =>
      remainingFreeSlots' = FreeSlotsLeft(tasks'[t][1].cart)
C35_SlotsMatchSnapshot == [][C35_Step]_vars

\* C36: when a pass has completed on a snapshot whose unlocked set holds no
\* discount tier, the attributes of the cart carry no discount type and no
\* discount value.
C36_NoStaleDiscount ==
  \A p \in CompletedPasses :
    (/\ UnlockedDiscounts(FrameAt(p).cart, "discount_percent") = {}
     /\ UnlockedDiscounts(FrameAt(p).cart, "discount_fixed") = {})
      => attributes.discount_type = "" /\ attributes.discount_value = ""

\* C37: when a pass has completed without a failed request, a line tagged
\* _popcart_free_gift is in the cart only if the tier of its threshold is
\* unlocked by the total of the snapshot of the pass, whether the line was
\* added by the engine or was in the cart when the session started.
C37_GiftOnlyIfUnlocked ==
  (HasGiftTier /\ CompletedAlone /\ tasks[1][1].failed = {} /\ remote["G1"] > 0)
    => TotalPrice(tasks[1][1].cart) >= TierGift.threshold

\* C38: in cheapest_in_cart mode, whenever the allocation of
\* updateBxgyProgress marks at least one unit free, the qualifying units of
\* the cart less the units marked free are at least buyQuantity.
C38_BuyQuantityStaysPaid ==
  (ModeIs({"cheapest_in_cart"}) /\ cart.status = "ok" /\ MapSum(bxgyFreeItemKeys) > 0) =>
    /\ bxgyProgress.currentQty = UntaggedUnits(cart.items)
    /\ UntaggedUnits(cart.items) - MapSum(bxgyFreeItemKeys) >= Offer.buyQuantity
C38_Witness ==
  /\ ModeIs({"cheapest_in_cart"})
  /\ cart.status = "ok"
  /\ Offer.buyQuantity = 2
  /\ Offer.getQuantity = 3
  /\ UntaggedUnits(cart.items) = 4
  /\ MapSum(bxgyFreeItemKeys) = 2
  /\ Len(bxgyFreeItemKeys) = 2

\* C39: guard release: whenever no engine operation is in flight,
\* isInternalCartUpdate, isApplyingBxgy and isAddingSelectionItem are all
\* false.
C39_GuardsReleased ==
  tasks = <<>> => ~isInternalCartUpdate /\ ~isApplyingBxgy /\ ~isAddingSelectionItem
C39_Witness ==
  /\ ModeIs({"automatic"})
  /\ tasks = <<>>
  /\ faults = 1
  /\ lastBxgyActionTime = now
  /\ remote["P1"] = 1
  /\ TaggedUnits(remote) = 0
  /\ timers.refresh = 1

\* a pass of a session without gestures evaluates its snapshot after an
\* automatic add was attempted and added nothing: the pass of the follow-up
\* refresh of a failed add
FollowsFailedAdd(t) ==
  /\ ModeIs({"automatic"})
  /\ Evaluates(t)
  /\ lastBxgyActionTime > 0
  /\ TaggedUnits(remote) = 0
\* C40: in automatic mode a failing add causes no retry: the pass of the
\* follow-up refresh that addAutomaticBxgyItem schedules issues no BXGY
\* mutation (it starts no further add); and a pass that starts an automatic
\* add does so with the cooldown elapsed, so that there is at most one
\* attempt per cooldown window.
C40_Step ==
  \A t \in 1..MaxTasks :
    /\ FollowsFailedAdd(t) =>
         /\ Top(tasks'[t]).pc \notin BxgyStepPcs
         /\ Mutations(Top(tasks'[t])) = {}
    /\ (Evaluates(t) /\ Top(tasks'[t]).pc = "autoLookup") => CooldownElapsed
C40_NoRetryAfterFailedAdd == [][C40_Step]_vars

====
